---- MODULE Spec2Model ----
(***************************************************************************)
(* Mode / command / status core of vimiv (vimiv/api/modes.py,              *)
(* vimiv/commands/runners.py) as a state machine.                          *)
(*                                                                         *)
(* Text is modelled as a sequence of one-character strings, so that the    *)
(* character-level code (strip, shlex.split, the digit peeling of _parse,  *)
(* the regular-expression substitutions of expand_percent) is computed as  *)
(* the code computes it.                                                   *)
(***************************************************************************)
EXTENDS Integers, Sequences, FiniteSets, TLC

VARIABLES
    active,        \* Mode.active of every mode
    last,          \* Mode._last of every mode
    pre,           \* the mode that was active when the most recent call began
    signals,       \* entered / left signals emitted during that call, in order
    raised,        \* exception that left that call ("none" when it returned)
    p_text,        \* the text given to _parse
    p_out,         \* what _parse returned or raised for it
    marks,         \* api.mark.paths, the marked paths in order
    curpath,       \* pathreceiver.current(mode), the current path
    e_text,        \* the text given to expand_percent
    e_out,         \* what expand_percent returned for it
    last_command,  \* _last_command: per mode, <<>> or <<the LastCommand>>
    r_before,      \* _last_command when the most recent run() began
    r_in,          \* arguments of the most recent run() and the active mode
    r_out,         \* what that run() did: calls, log, status updates, ...
    a_text,        \* the text given to alias
    a_mode,        \* the mode given to alias
    a_out,         \* what alias returned for them
    s_modules,     \* _modules: the names of the registered status modules
    s_cache,       \* the arguments _log_unknown_module was called with (its lru_cache)
    s_log,         \* the unknown-module warnings logged so far, in order
    s_text,        \* the text given to the most recent evaluate
    s_out,         \* what that evaluate returned
    s_raised,      \* exception of the most recent status.module call
    s_world,       \* per object of the class of a method module: the text its method returns now
    s_instance,    \* the object the object registry holds for that class
    s_lazy,        \* per _Module: how often the body of _create_func ran, and the object it bound
    s_invoked,     \* the module functions the most recent evaluate called, each with what it returned
    thread_id,     \* Manipulator.thread_id, the id of the newest edit
    manipulations, \* Manipulator.manipulations, the value of brightness and of contrast
    m_current,     \* Manipulator._current, the manipulation being edited
    runners,       \* per ManipulateRunner id: where its run() is, the image it retrieved, the values it read
    pixmaps,       \* the set_pixmap calls so far: runner id, thread_id at the call
    m_dispatched,  \* the ids the ManipulateRunners were constructed with, in order
    m_burst,       \* the ids of the runners that were asleep when the next edit was dispatched
    m_image,       \* the image the file handler has loaded
    m_pixmap,      \* ImageFileHandler.current, the pixmap shown
    m_reset,       \* Manipulator.reset() has reset the manipulations and no edit was made since
    runnables,     \* the ShellCommandRunnables started so far: text, pipe flag, finished or not
    events,        \* signals queued for the main loop, in order of emission
    slot_calls,    \* the calls of _on_pipe_output_received so far: thread, command, stdout
    x_log,         \* the log lines of the external runner, with the thread that wrote them
    tasks,         \* the QRunnables given to a thread pool so far: pool, kind, state, whether it ever finishes
    exit_pc,       \* where Application.exit and the aboutToQuit handlers are
    exit_arg,      \* <<>> or <<the returncode Application.exit was called with>>
    exit_status,   \* <<>> or <<the status the process has exited with>>
    o_paths,       \* the paths given to the most recent open, each by what it is
    handlers,      \* signal.getsignal: the handler installed for SIGINT and for SIGTERM
    timers,        \* the return codes of the Application.exit calls scheduled with QTimer.singleShot
    handled,       \* the signals delivered so far, each with the handler that ran for it
    c_mode,        \* CommandLine.mode, the mode commands of the command line are run in
    c_timers,      \* the functions given to QTimer.singleShot and not yet called, in order
    c_ran,         \* the functions called so far, each with the mode active at the call
    c_origin       \* the mode that was active when command mode was entered last

modeVars == <<active, last, pre, signals, raised>>

parseVars == <<p_text, p_out>>

pathVars == <<marks, curpath>>

expandVars == <<e_text, e_out>>

runVars == <<last_command, r_before, r_in, r_out>>

aliasVars == <<a_text, a_mode, a_out>>

statusVars ==
    <<s_modules, s_cache, s_log, s_text, s_out, s_raised, s_world, s_instance,
      s_lazy, s_invoked>>

manipVars ==
    <<thread_id, manipulations, m_current, runners, pixmaps, m_dispatched,
      m_burst, m_image, m_pixmap, m_reset>>

externalVars == <<runnables, events, slot_calls, x_log>>

exitVars == <<tasks, exit_pc, exit_arg, exit_status>>

openVars == <<o_paths>>

interruptVars == <<handlers, timers, handled>>

commandlineVars == <<c_mode, c_timers, c_ran, c_origin>>

vars ==
    <<active, last, pre, signals, raised, p_text, p_out, marks, curpath,
      e_text, e_out, last_command, r_before, r_in, r_out,
      aliasVars,
      statusVars,
      manipVars,
      externalVars,
      exitVars,
      openVars,
      interruptVars,
      commandlineVars>>

----------------------------------------------------------------------------
(* vimiv/api/modes.py                                                      *)

GLOBAL == "global"
IMAGE == "image"
LIBRARY == "library"
THUMBNAIL == "thumbnail"
COMMAND == "command"
MANIPULATE == "manipulate"

ALL == <<GLOBAL, IMAGE, LIBRARY, THUMBNAIL, COMMAND, MANIPULATE>>

GLOBALS == <<IMAGE, LIBRARY, THUMBNAIL>>

Modes == {ALL[i] : i \in 1..Len(ALL)}

NoMode == "NoMode"

\* the fallback every mode gets in _init(): LIBRARY for IMAGE, IMAGE otherwise
last_fallback(mode) == IF mode = IMAGE THEN LIBRARY ELSE IMAGE

\* Mode.widget stays None unless a widget class is decorated with
\* @modes.widget(mode); no widget is ever assigned to GLOBAL
HasWidget(mode) == mode # GLOBAL

\* current(): the first mode of ALL that is active, NoMode raised otherwise
current(act) ==
    IF \E i \in 1..Len(ALL) : act[ALL[i]]
    THEN ALL[CHOOSE i \in 1..Len(ALL) :
                 act[ALL[i]] /\ \A j \in 1..(i - 1) : ~act[ALL[j]]]
    ELSE NoMode

\* _MainMode._set_last without its filter
MainMode_set_last_unfiltered(l, self, mode) == [l EXCEPT ![self] = mode]

\* _MainMode._set_last: store any mode except for command and manipulate
MainMode_set_last(l, self, mode) ==
    IF mode \notin {COMMAND, MANIPULATE} THEN [l EXCEPT ![self] = mode] ELSE l

\* _CommandMode._set_last: store any mode except for command
CommandMode_set_last(l, self, mode) ==
    IF mode # self THEN [l EXCEPT ![self] = mode] ELSE l

\* the `last` property setter: dispatches to the class of the mode
set_last(l, self, mode) ==
    IF self = COMMAND THEN CommandMode_set_last(l, self, mode)
    ELSE MainMode_set_last(l, self, mode)

\* Mode.reset_last: self._last = self.last_fallback
reset_last(l, self) == [l EXCEPT ![self] = last_fallback(self)]

\* signal.emit(): record the signal
emit(s, mode, sig) == [s EXCEPT !.signals = Append(@, <<mode, sig>>)]

\* Mode.enter that forgets to deactivate the mode that was active
enter_keep_active(s, self) ==
    LET last_mode == current(s.active) IN
    IF last_mode = NoMode THEN [s EXCEPT !.raised = NoMode]
    ELSE IF last_mode = self THEN s
    ELSE LET s1 == [s EXCEPT !.last = set_last(@, self, last_mode),
                             !.active = [@ EXCEPT ![self] = TRUE]]
         IN  IF ~HasWidget(self)
             THEN [s1 EXCEPT !.raised = "AttributeError"]
             ELSE emit(s1, self, "entered")

\* Mode.enter without the return for the mode that is active already
enter_no_return(s, self) ==
    LET last_mode == current(s.active) IN
    IF last_mode = NoMode THEN [s EXCEPT !.raised = NoMode]
    ELSE LET s1 == [s EXCEPT !.last = set_last(@, self, last_mode),
                             !.active = [@ EXCEPT ![last_mode] = FALSE,
                                                  ![self] = TRUE]]
         IN  IF ~HasWidget(self)
             THEN [s1 EXCEPT !.raised = "AttributeError"]
             ELSE emit(s1, self, "entered")

\* Mode.enter that emits entered also for the mode that is active already
enter_emits_always(s, self) ==
    LET last_mode == current(s.active) IN
    IF last_mode = NoMode THEN [s EXCEPT !.raised = NoMode]
    ELSE IF last_mode = self THEN emit(s, self, "entered")
    ELSE LET s1 == [s EXCEPT !.last = set_last(@, self, last_mode),
                             !.active = [@ EXCEPT ![last_mode] = FALSE,
                                                  ![self] = TRUE]]
         IN  IF ~HasWidget(self)
             THEN [s1 EXCEPT !.raised = "AttributeError"]
             ELSE emit(s1, self, "entered")

\* Mode.enter
enter(s, self) ==
    LET last_mode == current(s.active) IN
    IF last_mode = NoMode THEN [s EXCEPT !.raised = NoMode]
    ELSE IF last_mode = self THEN s
    ELSE LET s1 == [s EXCEPT !.last = set_last(@, self, last_mode),
                             !.active = [@ EXCEPT ![last_mode] = FALSE,
                                                  ![self] = TRUE]]
         IN  IF ~HasWidget(self)
             THEN [s1 EXCEPT !.raised = "AttributeError"]
             ELSE emit(s1, self, "entered")

\* Mode.leave entering the fallback instead of the remembered mode
leave_to_fallback(s, self) ==
    LET s1 == enter(s, last_fallback(self)) IN
    IF s1.raised # "none" THEN s1
    ELSE LET s2 == emit(s1, self, "left")
         IN  [s2 EXCEPT !.last = reset_last(@, s2.last[self])]

\* Mode.leave without the final reset_last
leave_no_reset(s, self) ==
    LET s1 == enter(s, s.last[self]) IN
    IF s1.raised # "none" THEN s1
    ELSE emit(s1, self, "left")

\* Mode.leave: self.last.enter(); self.left.emit(); self.last.reset_last()
leave(s, self) ==
    LET s1 == enter(s, s.last[self]) IN
    IF s1.raised # "none" THEN s1
    ELSE LET s2 == emit(s1, self, "left")
         IN  [s2 EXCEPT !.last = reset_last(@, s2.last[self])]

\* Mode.toggle: leave if the widget is visible, enter otherwise; isVisible
\* is the answer of the widget (it depends on the window and on the widget's
\* ancestors, which this module does not own)
toggle(s, self, isVisible) ==
    IF ~HasWidget(self) THEN [s EXCEPT !.raised = "AttributeError"]
    ELSE IF isVisible THEN leave(s, self)
    ELSE enter(s, self)

\* the mode state a call starts from: nothing emitted, nothing raised
ModeState ==
    [active |-> active, last |-> last, signals |-> <<>>, raised |-> "none"]

\* the effect of one call on the mode API, s being the state it ends in
ModeCall(s) ==
    /\ active' = s.active
    /\ last' = s.last
    /\ signals' = s.signals
    /\ raised' = s.raised
    /\ pre' = current(active)

EnterCall(mode) == ModeCall(enter(ModeState, mode))

LeaveCall(mode) == ModeCall(leave(ModeState, mode))

ToggleCall(mode) ==
    \E isVisible \in BOOLEAN : ModeCall(toggle(ModeState, mode, isVisible))

\* _init(): IMAGE active with last LIBRARY, every other mode's last IMAGE
InitModes ==
    /\ active = [m \in Modes |-> m = IMAGE]
    /\ last = [m \in Modes |-> last_fallback(m)]
    /\ pre = IMAGE
    /\ signals = <<>>
    /\ raised = "none"

NextModes ==
    \/ \E mode \in Modes : EnterCall(mode)
    \/ \E mode \in Modes : LeaveCall(mode)
    \/ \E mode \in Modes : ToggleCall(mode)

----------------------------------------------------------------------------
(* Text: str methods, shlex and re as vimiv/commands/runners.py uses them  *)

\* characters of the model's texts; Sup2 stands for the one character
\* U+00B2 (superscript two), a digit for str.isdigit() that is not decimal
Space == " "
Quote == "'"
DQuote == "\""
Backslash == "\\"
Sup2 == "sup2"

\* str.isspace() on the characters of the model
IsSpace(c) == c = Space

DecimalDigits == {"0", "1", "2", "3", "4", "5", "6", "7", "8", "9"}

\* str.isdigit(): the decimal digits and the other Unicode digit characters
isdigit(c) == c \in DecimalDigits \cup {Sup2}

RECURSIVE lstrip(_)
\* str.lstrip(): drop the leading whitespace
lstrip(t) ==
    IF t = <<>> THEN t
    ELSE IF IsSpace(Head(t)) THEN lstrip(Tail(t)) ELSE t

RECURSIVE rstrip(_)
\* str.rstrip(): drop the trailing whitespace
rstrip(t) ==
    IF t = <<>> THEN t
    ELSE IF IsSpace(t[Len(t)]) THEN rstrip(SubSeq(t, 1, Len(t) - 1)) ELSE t

\* str.strip()
strip(t) == rstrip(lstrip(t))

\* result of shlex.split: the tokens, or the ValueError it raised
ShlexOk(tokens) == [exc |-> "none", tokens |-> tokens]

ShlexError == [exc |-> "ValueError", tokens |-> <<>>]

RECURSIVE read_token(_, _, _, _, _, _, _)
\* shlex.shlex.read_token in POSIX mode with whitespace_split and without
\* commenters, iterated over the whole text as shlex.split does.
\* st is the lexer state (" " between tokens, "a" in a word, a quote
\* character inside quotes, the backslash after an escape character),
\* esc the state to return to after an escape (escapedstate).
read_token(t, i, st, tok, quoted, esc, out) ==
    IF i > Len(t)
    THEN IF st = Space THEN ShlexOk(out)
         ELSE IF st \in {Quote, DQuote} THEN ShlexError
         ELSE IF st = Backslash THEN ShlexError
         ELSE ShlexOk(Append(out, tok))
    ELSE LET c == t[i] IN
         IF st = Space
         THEN IF IsSpace(c) THEN read_token(t, i + 1, st, tok, quoted, esc, out)
              ELSE IF c = Backslash
              THEN read_token(t, i + 1, c, tok, quoted, "a", out)
              ELSE IF c \in {Quote, DQuote}
              THEN read_token(t, i + 1, c, tok, quoted, esc, out)
              ELSE read_token(t, i + 1, "a", <<c>>, quoted, esc, out)
         ELSE IF st \in {Quote, DQuote}
         THEN IF c = st THEN read_token(t, i + 1, "a", tok, TRUE, esc, out)
              ELSE IF c = Backslash /\ st = DQuote
              THEN read_token(t, i + 1, c, tok, TRUE, st, out)
              ELSE read_token(t, i + 1, st, Append(tok, c), TRUE, esc, out)
         ELSE IF st = Backslash
         THEN LET kept == IF esc \in {Quote, DQuote} /\ c # st /\ c # esc
                          THEN Append(tok, st) ELSE tok
              IN  read_token(t, i + 1, esc, Append(kept, c), quoted, esc, out)
         ELSE IF IsSpace(c)
              THEN read_token(t, i + 1, Space, <<>>, FALSE, Space,
                              Append(out, tok))
              ELSE IF c \in {Quote, DQuote}
              THEN read_token(t, i + 1, c, tok, quoted, esc, out)
              ELSE IF c = Backslash
              THEN read_token(t, i + 1, c, tok, quoted, "a", out)
              ELSE read_token(t, i + 1, st, Append(tok, c), quoted, esc, out)

\* shlex.split(text)
shlex_split(t) == read_token(t, 1, Space, <<>>, FALSE, Space, <<>>)

RECURSIVE digit_run(_)
\* number of characters the loop `while cmdname and cmdname[0].isdigit()`
\* moves from the front of cmdname to count
digit_run(t) ==
    IF t # <<>> /\ isdigit(Head(t)) THEN 1 + digit_run(Tail(t)) ELSE 0

\* what _parse returns: (count, cmdname, args); exc names what it raised
Parsed(count, cmdname, args) ==
    [exc |-> "none", count |-> count, cmdname |-> cmdname, args |-> args]

ParseRaised(exc) == [exc |-> exc, count |-> <<>>, cmdname |-> <<>>, args |-> <<>>]

\* _parse peeling off one leading digit at most
parse_one_digit(text) ==
    LET split == shlex_split(strip(text)) IN
    IF split.exc # "none" THEN ParseRaised("ValueError")
    ELSE IF split.tokens = <<>> THEN ParseRaised("IndexError")
    ELSE LET first == split.tokens[1]
             n == IF first # <<>> /\ isdigit(Head(first)) THEN 1 ELSE 0
         IN  Parsed(SubSeq(first, 1, n), SubSeq(first, n + 1, Len(first)),
                    Tail(split.tokens))

\* _parse: strip, shlex.split, peel the leading digits of the first token
\* off as count; split[0] raises IndexError when there is no token
parse(text) ==
    LET split == shlex_split(strip(text)) IN
    IF split.exc # "none" THEN ParseRaised("ValueError")
    ELSE IF split.tokens = <<>> THEN ParseRaised("IndexError")
    ELSE LET first == split.tokens[1]
             n == digit_run(first)
         IN  Parsed(SubSeq(first, 1, n), SubSeq(first, n + 1, Len(first)),
                    Tail(split.tokens))

\* all texts over the characters C of length at most n
Texts(C, n) == UNION {[1..k -> C] : k \in 0..n}

\* longest command text given to _parse
MaxParseLen == 4

\* characters of the texts given to _parse
ParseChars == {"3", "7", "g", Space, Quote, DQuote, Backslash, Sup2}

\* the two command texts of the count parsing examples
Text_3goto == <<"3", "g", "o", "t", "o">>

Text_goto_3 == <<"g", "o", "t", "o", Space, "3">>

\* the text to parse is chosen
InitParse ==
    /\ p_text \in Texts(ParseChars, MaxParseLen) \cup {Text_3goto, Text_goto_3}
    /\ p_out = ParseRaised("not called")

\* a call of _parse(p_text)
ParseCall ==
    /\ p_out.exc = "not called"
    /\ p_out' = parse(p_text)
    /\ UNCHANGED <<p_text, modeVars, pathVars, expandVars, runVars, aliasVars, statusVars, manipVars, externalVars, exitVars, openVars, interruptVars, commandlineVars>>

\* no text has been parsed
InitParseIdle == p_text = <<>> /\ p_out = ParseRaised("not called")

----------------------------------------------------------------------------
(* expand_percent                                                          *)

Percent == "%"

RECURSIVE contains(_, _)
\* the `in` operator of str: sub occurs in t
contains(t, sub) ==
    IF Len(t) < Len(sub) THEN FALSE
    ELSE IF SubSeq(t, 1, Len(sub)) = sub THEN TRUE
    ELSE contains(Tail(t), sub)

RECURSIVE join(_)
\* " ".join(paths)
join(paths) ==
    IF paths = <<>> THEN <<>>
    ELSE IF Len(paths) = 1 THEN paths[1]
    ELSE paths[1] \o <<Space>> \o join(Tail(paths))

\* characters shlex.quote leaves unquoted: [a-zA-Z0-9_@%+=:,./-]
SafeChars ==
    {"a", "b", "c", "d", "e", "f", "g", "h", "i", "j", "k", "l", "m", "n",
     "o", "p", "q", "r", "s", "t", "u", "v", "w", "x", "y", "z",
     "/", ".", "%", "-", "_", "@", "+", "=", ":", ","} \cup DecimalDigits

RECURSIVE quote_inner(_)
\* s.replace("'", "'\"'\"'")
quote_inner(s) ==
    IF s = <<>> THEN <<>>
    ELSE IF Head(s) = Quote
    THEN <<Quote, DQuote, Quote, DQuote, Quote>> \o quote_inner(Tail(s))
    ELSE <<Head(s)>> \o quote_inner(Tail(s))

\* shlex.quote(s)
shlex_quote(s) ==
    IF s = <<>> THEN <<Quote, Quote>>
    ELSE IF \A i \in 1..Len(s) : s[i] \in SafeChars THEN s
    ELSE <<Quote>> \o quote_inner(s) \o <<Quote>>

RECURSIVE sub_percent_m(_, _, _)
\* re.sub(r"(?<!\\)%m", repl, t) from position i on; repl holds no backslash,
\* so it is inserted as it is
sub_percent_m(t, i, repl) ==
    IF i > Len(t) THEN <<>>
    ELSE IF /\ t[i] = Percent
            /\ i < Len(t)
            /\ t[i + 1] = "m"
            /\ (i = 1 \/ t[i - 1] # Backslash)
    THEN repl \o sub_percent_m(t, i + 2, repl)
    ELSE <<t[i]>> \o sub_percent_m(t, i + 1, repl)

RECURSIVE sub_percent_escaped_too(_, _, _)
\* re.sub(r"%", repl, t): the substitution without the lookbehind
sub_percent_escaped_too(t, i, repl) ==
    IF i > Len(t) THEN <<>>
    ELSE IF t[i] = Percent
    THEN repl \o sub_percent_escaped_too(t, i + 1, repl)
    ELSE <<t[i]>> \o sub_percent_escaped_too(t, i + 1, repl)

RECURSIVE sub_percent(_, _, _)
\* re.sub(r"(?<!\\)%", repl, t) from position i on
sub_percent(t, i, repl) ==
    IF i > Len(t) THEN <<>>
    ELSE IF t[i] = Percent /\ (i = 1 \/ t[i - 1] # Backslash)
    THEN repl \o sub_percent(t, i + 1, repl)
    ELSE <<t[i]>> \o sub_percent(t, i + 1, repl)

\* expand_percent(text, mode): first %m in the text, then % in the result
expand_percent(text, paths, path) ==
    LET t1 == IF contains(text, <<Percent, "m">>)
              THEN sub_percent_m(text, 1, join(paths)) ELSE text
    IN  IF contains(t1, <<Percent>>)
        THEN sub_percent(t1, 1, shlex_quote(path)) ELSE t1

\* paths of the model: /a.jpg, /b.jpg, /c.jpg of the wildcard examples, a
\* path with a percent sign and a path with a space
Path_a == <<"/", "a", ".", "j", "p", "g">>

Path_b == <<"/", "b", ".", "j", "p", "g">>

Path_c == <<"/", "c", ".", "j", "p", "g">>

Path_percent == <<"/", "a", Percent>>

Path_space == <<"/", "a", Space, "b">>

\* the lists of marked paths and the current paths the model draws from
MarkLists == {<<>>, <<Path_a>>, <<Path_a, Path_b>>, <<Path_percent>>, <<Path_space, Path_b>>}

CurrentPaths == {Path_c, Path_space, Path_percent}

\* longest text given to expand_percent
MaxExpandLen == 4

\* characters of the texts given to expand_percent
ExpandChars == {"o", Space, Percent, "m", Backslash}

\* the two command texts of the wildcard examples
Text_open_m == <<"o", "p", "e", "n", Space, Percent, "m">>

Text_open_percent == <<"o", "p", "e", "n", Space, Percent>>

NotExpanded == <<"not called">>

\* the marked paths, the current path and the text to expand are chosen
InitExpand ==
    /\ marks \in MarkLists
    /\ curpath \in CurrentPaths
    /\ e_text \in Texts(ExpandChars, MaxExpandLen)
                    \cup {Text_open_m, Text_open_percent}
    /\ e_out = NotExpanded

\* nothing is marked, nothing has been expanded
InitExpandIdle ==
    /\ marks = <<>>
    /\ curpath = Path_c
    /\ e_text = <<>>
    /\ e_out = NotExpanded

\* a call of expand_percent(e_text, mode)
ExpandCall ==
    /\ e_out = NotExpanded
    /\ e_out' = expand_percent(e_text, marks, curpath)
    /\ UNCHANGED <<e_text, marks, curpath, modeVars, parseVars, runVars, aliasVars, statusVars, manipVars, externalVars, exitVars, openVars, interruptVars, commandlineVars>>

----------------------------------------------------------------------------
(* vimiv/commands/runners.py: run, command, repeat_command, _run_command   *)

None == "None"

\* a count is None, a str of digits (as _parse returns it) or an int,
\* written by its decimal digits
CountNone == [kind |-> "None", v |-> <<>>]

CountStr(digits) == [kind |-> "str", v |-> digits]

CountInt(digits) == [kind |-> "int", v |-> digits]

\* str(count) of run(): the decimal digits of the int
str(count) == count.v

RECURSIVE int_digits(_)
\* the decimal digits of int(s): s without its leading zeros
int_digits(s) ==
    IF Len(s) > 1 /\ Head(s) = "0" THEN int_digits(Tail(s)) ELSE s

\* the count a command function declared with `count: Optional[int]`
\* receives for the count _run_command passes: None for "", the int otherwise
to_optional_int(count) ==
    IF count.kind = "str"
    THEN IF count.v = <<>> THEN CountNone ELSE CountInt(int_digits(count.v))
    ELSE count

\* names of the registered commands of the model
Name_fullscreen == <<"f", "u", "l", "l", "s", "c", "r", "e", "e", "n">>

Name_goto == <<"g", "o", "t", "o">>

Name_repeat_command ==
    <<"r", "e", "p", "e", "a", "t", "-", "c", "o", "m", "m", "a", "n", "d">>

GlobalModes == {GLOBALS[i] : i \in 1..Len(GLOBALS)}

\* the modes a command is registered for: fullscreen and repeat-command
\* for the global group (image, library, thumbnail), goto for thumbnail
registered(mode, name) ==
    \/ name = Name_fullscreen /\ mode \in GlobalModes
    \/ name = Name_repeat_command /\ mode \in GlobalModes
    \/ name = Name_goto /\ mode = THUMBNAIL

\* the store flag with repeat-command registered like any other command
store_always(name) == TRUE

\* the store flag of a command: repeat-command is registered store=False
store(name) == name # Name_repeat_command

\* aliases.get(mode): the alias table of the mode, alias f for fullscreen
\* in the global modes
aliases_get(mode) ==
    IF mode \in GlobalModes
    THEN {[alias |-> <<"f">>, command |-> Name_fullscreen]}
    ELSE {}

RECURSIVE first_word(_)
\* the characters of t up to the first whitespace
first_word(t) ==
    IF t = <<>> \/ IsSpace(Head(t)) THEN <<>>
    ELSE <<Head(t)>> \o first_word(Tail(t))

RECURSIVE replace(_, _, _)
\* str.replace(old, new): every occurrence of old, from left to right
replace(t, old, new) ==
    IF Len(t) < Len(old) \/ old = <<>> THEN t
    ELSE IF SubSeq(t, 1, Len(old)) = old
    THEN new \o replace(SubSeq(t, Len(old) + 1, Len(t)), old, new)
    ELSE <<Head(t)>> \o replace(Tail(t), old, new)

\* alias(text, mode): text.split()[0] looked up in the alias table
alias(text, mode) ==
    LET cmd == first_word(lstrip(text))
        hits == {a \in aliases_get(mode) : a.alias = cmd}
    IN  IF hits # {}
        THEN replace(text, cmd, (CHOOSE a \in hits : TRUE).command)
        ELSE text

\* _update_command
update_command(text, mode, paths, path) ==
    expand_percent(alias(text, mode), paths, path)

RECURSIVE lstrip_bang(_)
\* text.lstrip("!")
lstrip_bang(t) ==
    IF t # <<>> /\ Head(t) = "!" THEN lstrip_bang(Tail(t)) ELSE t

LastCommand(count, cmdname, args) ==
    [Count |-> count, Command |-> cmdname, Arguments |-> args]

\* what a command can do when it is called: return, or raise one of the
\* exceptions of api.commands
Outcomes == {"ok", "ArgumentError", "CommandError", "CommandWarning"}

\* logging.<level>(...)
log(r, level, tag, msg) ==
    [r EXCEPT !.log = Append(@, [level |-> level, tag |-> tag, msg |-> msg])]

\* one call cmd(args, count=count) made by _run_command
Called(cmdname, args, count, mode) ==
    [name |-> cmdname, args |-> args, count |-> count, mode |-> mode]

RECURSIVE run_command(_, _, _, _, _, _, _)

\* repeat_command preferring the stored count over the entered one
repeat_command_stored_first(r, count, outs, level) ==
    LET mode == r.cur IN
    IF mode = NoMode THEN [r EXCEPT !.exc = NoMode]
    ELSE IF r.last_command[mode] = <<>>
    THEN [r EXCEPT !.exc = "CommandError", !.msg = "No command to repeat"]
    ELSE LET stored == r.last_command[mode][1]
             c == IF stored.Count.v # <<>> THEN stored.Count ELSE count
         IN  run_command(r, c, stored.Command, stored.Arguments, mode, outs,
                         "inner")

\* repeat_command: the last command of the active mode, the entered count
\* preferred over the stored one
repeat_command(r, count, outs, level) ==
    LET mode == r.cur IN
    IF mode = NoMode THEN [r EXCEPT !.exc = NoMode]
    ELSE IF r.last_command[mode] = <<>>
    THEN [r EXCEPT !.exc = "CommandError", !.msg = "No command to repeat"]
    ELSE LET stored == r.last_command[mode][1]
             c == IF count # CountNone THEN count ELSE stored.Count
         IN  run_command(r, c, stored.Command, stored.Arguments, mode, outs,
                         "inner")

\* cmd(args, count=count): the arguments are bound (ArgumentError when that
\* fails), then the command function runs. outs[level] is what a command
\* other than repeat-command does at this nesting level; results records,
\* per call, the exception that left it ("none" when it returned).
invoke(r, cmdname, args, count, mode, outs, level) ==
    LET r1 == [r EXCEPT !.calls = Append(@, Called(cmdname, args, count, mode)),
                        !.results = Append(@, "running")]
        o == outs[level]
        r2 == IF o = "ArgumentError"
              THEN [r1 EXCEPT !.exc = o, !.msg = o]
              ELSE IF cmdname = Name_repeat_command
              THEN IF level = "inner" THEN [r1 EXCEPT !.exc = "RecursionError"]
                   ELSE repeat_command(r1, to_optional_int(count), outs, level)
              ELSE IF o = "ok" THEN r1
              ELSE [r1 EXCEPT !.exc = o, !.msg = o]
    IN  [r2 EXCEPT !.results[Len(r1.calls)] = r2.exc]

\* _run_command storing the command in the slot of the active mode
run_command_stores_active(r, count, cmdname, args, mode, outs, level) ==
    IF ~registered(mode, cmdname)
    THEN log(r, "error", <<>>, "CommandNotFound")
    ELSE LET r1 == IF store(cmdname)
                   THEN [r EXCEPT !.last_command[r.cur] =
                                      <<LastCommand(count, cmdname, args)>>]
                   ELSE r
             r2 == invoke(r1, cmdname, args, count, mode, outs, level)
         IN  IF r2.exc = "none" THEN [r2 EXCEPT !.updates = @ + 1]
             ELSE IF r2.exc \in {"ArgumentError", "CommandError"}
             THEN log([r2 EXCEPT !.exc = "none"], "error", cmdname, r2.msg)
             ELSE IF r2.exc = "CommandWarning"
             THEN log([r2 EXCEPT !.exc = "none"], "warning", cmdname, r2.msg)
             ELSE r2

\* _run_command storing the command after it has run without an exception
run_command_stores_after(r, count, cmdname, args, mode, outs, level) ==
    IF ~registered(mode, cmdname)
    THEN log(r, "error", <<>>, "CommandNotFound")
    ELSE LET r2 == invoke(r, cmdname, args, count, mode, outs, level)
         IN  IF r2.exc = "none"
             THEN [r2 EXCEPT !.updates = @ + 1,
                             !.last_command[mode] =
                                 IF store(cmdname)
                                 THEN <<LastCommand(count, cmdname, args)>>
                                 ELSE @]
             ELSE IF r2.exc \in {"ArgumentError", "CommandError"}
             THEN log([r2 EXCEPT !.exc = "none"], "error", cmdname, r2.msg)
             ELSE IF r2.exc = "CommandWarning"
             THEN log([r2 EXCEPT !.exc = "none"], "warning", cmdname, r2.msg)
             ELSE r2

\* _run_command
run_command(r, count, cmdname, args, mode, outs, level) ==
    IF ~registered(mode, cmdname)
    THEN log(r, "error", <<>>, "CommandNotFound")
    ELSE LET r1 == IF store(cmdname)
                   THEN [r EXCEPT !.last_command[mode] =
                                      <<LastCommand(count, cmdname, args)>>]
                   ELSE r
             r2 == invoke(r1, cmdname, args, count, mode, outs, level)
         IN  IF r2.exc = "none" THEN [r2 EXCEPT !.updates = @ + 1]
             ELSE IF r2.exc \in {"ArgumentError", "CommandError"}
             THEN log([r2 EXCEPT !.exc = "none"], "error", cmdname, r2.msg)
             ELSE IF r2.exc = "CommandWarning"
             THEN log([r2 EXCEPT !.exc = "none"], "warning", cmdname, r2.msg)
             ELSE r2

\* command(text, mode) without the except clause for ValueError
command_no_except(r, text, mode, outs) ==
    LET p == parse(text) IN
    IF p.exc # "none" THEN [r EXCEPT !.exc = p.exc]
    ELSE LET m == IF mode # None THEN mode ELSE r.cur IN
         IF m = NoMode THEN [r EXCEPT !.exc = NoMode]
         ELSE LET r1 == run_command(r, CountStr(p.count), p.cmdname, p.args,
                                    m, outs, "outer")
              IN  IF r1.exc # "none" THEN r1
                  ELSE log(r1, "debug", <<>>, "Ran succesfully")

\* command(text, mode)
command(r, text, mode, outs) ==
    LET p == parse(text) IN
    IF p.exc = "ValueError"
    THEN log(r, "error", <<>>, "Error parsing command")
    ELSE IF p.exc # "none" THEN [r EXCEPT !.exc = p.exc]
    ELSE LET m == IF mode # None THEN mode ELSE r.cur IN
         IF m = NoMode THEN [r EXCEPT !.exc = NoMode]
         ELSE LET r1 == run_command(r, CountStr(p.count), p.cmdname, p.args,
                                    m, outs, "outer")
              IN  IF r1.exc # "none" THEN r1
                  ELSE log(r1, "debug", <<>>, "Ran succesfully")

\* ExternalRunner.__call__: a ShellCommandRunnable is started for the text
external(r, text) == [r EXCEPT !.external = Append(@, text)]

\* run() with the count written in the text taking the place of the count
\* given to run()
run_text_count_first(r, text, count, mode, outs, paths, path) ==
    LET t0 == strip(text) IN
    IF t0 = <<>> THEN r
    ELSE LET t1 == update_command(t0, mode, paths, path) IN
         IF t1 # <<>> /\ Head(t1) = "!" THEN external(r, lstrip_bang(t1))
         ELSE LET c == IF count # CountNone /\ digit_run(t1) = 0
                       THEN str(count) ELSE <<>>
              IN  command(r, c \o t1, mode, outs)

\* run() without the early return for empty text
run_without_return(r, text, count, mode, outs, paths, path) ==
    LET t1 == update_command(strip(text), mode, paths, path) IN
    IF t1 # <<>> /\ Head(t1) = "!" THEN external(r, lstrip_bang(t1))
    ELSE LET c == IF count # CountNone THEN str(count) ELSE <<>>
         IN  command(r, c \o t1, mode, outs)

\* run(text, count, mode)
run(r, text, count, mode, outs, paths, path) ==
    LET t0 == strip(text) IN
    IF t0 = <<>> THEN r
    ELSE LET t1 == update_command(t0, mode, paths, path) IN
         IF t1 # <<>> /\ Head(t1) = "!" THEN external(r, lstrip_bang(t1))
         ELSE LET c == IF count # CountNone THEN str(count) ELSE <<>>
              IN  command(r, c \o t1, mode, outs)

\* the runner state a run() starts from
RunState ==
    [last_command |-> last_command, cur |-> current(active), calls |-> <<>>,
     results |-> <<>>, log |-> <<>>, updates |-> 0, exc |-> "none",
     msg |-> "", external |-> <<>>]

\* texts given to run()
Text_fullscreen == Name_fullscreen

Text_3fullscreen == <<"3">> \o Name_fullscreen

Text_repeat_command == Name_repeat_command

Text_bogus == <<"b", "o", "g", "u", "s">>

Text_unclosed == <<Name_goto[1], Quote>>

Text_blank == <<Space>>

Text_empty == <<>>

Text_shell == <<"!", "l", "s">>

Text_marked == <<Percent, "m">>

RunTexts ==
    {Text_fullscreen, Text_3fullscreen, Text_goto_3, Text_repeat_command,
     Text_bogus, Text_unclosed, Text_blank, Text_empty, Text_shell,
     Text_marked}

\* counts given to run(): None or the int 2
RunCounts == {CountNone, CountInt(<<"2">>)}

\* modes given to run(): None (the active mode) or a mode
RunModeArgs == {None, THUMBNAIL}

\* what the command calls of a run do: outs.outer is the command the text
\* names, outs.inner the stored command that repeat-command calls again
\* (read only then; repeat-command without arguments binds and runs)
RunOutcomes(text) ==
    IF text = Text_repeat_command
    THEN {o \in [{"outer", "inner"} -> Outcomes] : o.outer = "ok"}
    ELSE IF text \in {Text_fullscreen, Text_3fullscreen, Text_goto_3}
    THEN {o \in [{"outer", "inner"} -> Outcomes] : o.inner = "ok"}
    ELSE {[outer |-> "ok", inner |-> "ok"]}

\* run(text, count, mode) is called
RunCall(text, count, mode, outs) ==
    \E r \in {run(RunState, text, count, mode, outs, marks, curpath)} :
    /\ last_command' = r.last_command
    /\ r_before' = last_command
    /\ r_in' = [text |-> text, count |-> count, mode |-> mode,
                cur |-> current(active)]
    /\ r_out' = [calls |-> r.calls, results |-> r.results, log |-> r.log,
                 updates |-> r.updates, raised |-> r.exc,
                 external |-> r.external]
    /\ UNCHANGED <<modeVars, parseVars, pathVars, expandVars, aliasVars, statusVars, manipVars, externalVars, exitVars, openVars, interruptVars, commandlineVars>>

\* in place of the text when no run() is being observed
NotRun == <<"not called">>

\* no run() is being observed
RunIdle(before, in, out) ==
    /\ before = [m \in Modes |-> <<>>]
    /\ in = [text |-> NotRun, count |-> CountNone, mode |-> None, cur |-> IMAGE]
    /\ out = [calls |-> <<>>, results |-> <<>>, log |-> <<>>, updates |-> 0,
              raised |-> "none", external |-> <<>>]

\* no command has been run: _last_command = {}
InitRun ==
    /\ last_command = [m \in Modes |-> <<>>]
    /\ RunIdle(r_before, r_in, r_out)

\* the marked paths of the runs
InitRunPaths ==
    /\ marks = <<>>
    /\ curpath = Path_c
    /\ e_text = <<>>
    /\ e_out = NotExpanded

\* the mode entered between the runs
RunModes == {THUMBNAIL}

----------------------------------------------------------------------------
(* alias(text, mode) on its own                                            *)

\* longest text given to alias
MaxAliasLen == 4

\* characters of the texts given to alias: the alias name f, another letter
\* and a blank
AliasChars == {"f", "o", Space}

\* the texts run() passes on to alias: stripped and not empty
AliasTexts == {t \in Texts(AliasChars, MaxAliasLen) : t # <<>> /\ strip(t) = t}

\* modes given to alias: a mode with the alias f and a mode without
AliasModes == {IMAGE, THUMBNAIL, COMMAND}

NotAliased == <<"not called">>

\* a text and a mode are chosen
InitAlias ==
    /\ a_text \in AliasTexts
    /\ a_mode \in AliasModes
    /\ a_out = NotAliased

\* alias has not been called
InitAliasIdle ==
    /\ a_text = <<>>
    /\ a_mode = IMAGE
    /\ a_out = NotAliased

\* a call of alias(a_text, a_mode)
AliasCall ==
    /\ a_out = NotAliased
    /\ a_out' = alias(a_text, a_mode)
    /\ UNCHANGED <<a_text, a_mode, modeVars, parseVars, pathVars, expandVars, runVars, statusVars, manipVars, externalVars, exitVars, openVars, interruptVars, commandlineVars>>

----------------------------------------------------------------------------
(* vimiv/api/status.py: module, evaluate, _log_unknown_module              *)

LBrace == "{"

RBrace == "}"

\* names given to status.module() and tokens of the evaluated texts
Mod_a == <<LBrace, "a", RBrace>>

Mod_b == <<LBrace, "b", RBrace>>

Mod_c == <<LBrace, "c", RBrace>>

\* is_method(func): the function of {a} is a method of a class, that of
\* {b} a plain function
is_method(name) == name # Mod_b

\* what the function of a status module returns: for {a} the text its
\* object holds at the time of the call, for {b} a text that itself holds a
\* token
Output(name, value) == IF name = Mod_b THEN Mod_a ELSE value

\* the objects of the class that defines the method of {a}
Instances == {"first", "second"}

\* the texts such an object can hold
Worlds == {<<"x">>, <<"y">>}

\* a _Module on which _create_func has not run: no _lazy__create_func
NotCreated == [created |-> 0, instance |-> <<>>]

\* the body of _create_func: a method is bound to the object the registry
\* holds for its class, functools.partial(func, instance); a plain function
\* is returned as it is. created counts the runs of the body, up to two.
create_func_body(st, name) ==
    [created |-> IF st.lazy[name].created = 0 THEN 1 ELSE 2,
     instance |-> IF is_method(name) THEN <<st.instance>> ELSE <<"function">>]

\* _create_func without the cached_method decorator
create_func_uncached(st, name) ==
    [st EXCEPT !.lazy[name] = create_func_body(st, name)]

\* _create_func under cached_method: the body runs when the _Module has no
\* attribute _lazy__create_func yet, later calls return the stored result
create_func(st, name) ==
    IF st.lazy[name].created = 0
    THEN [st EXCEPT !.lazy[name] = create_func_body(st, name)]
    ELSE st

\* _Module.__call__: func = self._create_func(self._func); return func()
Module_call(st, name) ==
    LET st1 == create_func(st, name)
        bound == st1.lazy[name].instance[1]
        out == Output(name, IF is_method(name) THEN st.world[bound] ELSE <<>>)
    IN  [st1 EXCEPT !.invoked = Append(@, [name |-> name, out |-> out]),
                    !.ret = out]

\* name.startswith("{") and name.endswith("}")
wrapped(name) ==
    /\ name # <<>>
    /\ Head(name) = LBrace
    /\ name[Len(name)] = RBrace

\* the decorator of status.module(name) without the check of the name
module_unchecked(modules, name) ==
    [modules |-> modules \cup {name}, raised |-> "none"]

\* the decorator of status.module(name): the table after the call and the
\* exception that left it
module(modules, name) ==
    IF ~wrapped(name)
    THEN [modules |-> modules, raised |-> "InvalidModuleName"]
    ELSE [modules |-> modules \cup {name}, raised |-> "none"]

RECURSIVE closing(_, _)
\* the position of the first } of t at or after position j, 0 if none
closing(t, j) ==
    IF j > Len(t) THEN 0
    ELSE IF t[j] = RBrace THEN j
    ELSE closing(t, j + 1)

RECURSIVE findall(_, _)
\* _module_expression.findall(t) from position i on: the non-overlapping
\* matches of \{.*?\}, from left to right
findall(t, i) ==
    IF i > Len(t) THEN <<>>
    ELSE IF t[i] = LBrace /\ closing(t, i + 1) # 0
    THEN <<SubSeq(t, i, closing(t, i + 1))>> \o findall(t, closing(t, i + 1) + 1)
    ELSE findall(t, i + 1)

\* _log_unknown_module: the lru_cache runs the body once per module name
log_unknown_module(st, module_name) ==
    IF module_name \in st.cache THEN st
    ELSE [st EXCEPT !.cache = @ \cup {module_name},
                    !.log = Append(@, module_name)]

RECURSIVE evaluate_modules(_, _, _)
\* the for loop of evaluate over the matches
evaluate_modules(names, st, modules) ==
    IF names = <<>> THEN st
    ELSE LET module_name == Head(names) IN
         IF module_name \in modules
         THEN LET st1 == Module_call(st, module_name) IN
              evaluate_modules(
                  Tail(names),
                  [st1 EXCEPT !.text = replace(@, module_name, st1.ret)],
                  modules)
         ELSE evaluate_modules(
                  Tail(names),
                  log_unknown_module(
                      [st EXCEPT !.text = replace(@, module_name, <<>>)],
                      module_name),
                  modules)

\* evaluate(text)
evaluate(st, modules) == evaluate_modules(findall(st.text, 1), st, modules)

\* names given to status.module(): wrapped in braces or not
ModuleNames ==
    {Mod_a, Mod_b, <<"a">>, <<LBrace, "a">>, <<"a", RBrace>>, <<>>,
     <<RBrace, LBrace>>}

\* texts given to evaluate
StatusTexts ==
    {<<>>, <<"a">>, Mod_a, Mod_c, <<"a">> \o Mod_a \o <<"a">>,
     Mod_a \o Mod_a, Mod_c \o Mod_c, Mod_a \o Mod_b, Mod_b \o <<Space>> \o Mod_a,
     Mod_a \o Mod_c, <<LBrace, "a">>, <<"a", RBrace>>, <<RBrace, LBrace>>,
     <<LBrace, LBrace, "a", RBrace>>}

NotEvaluated == <<"not called">>

\* no status module is registered, nothing has been evaluated
InitStatus ==
    /\ s_modules = {}
    /\ s_cache = {}
    /\ s_log = <<>>
    /\ s_text = NotEvaluated
    /\ s_out = NotEvaluated
    /\ s_raised = "none"
    /\ s_world = [i \in Instances |-> <<"x">>]
    /\ s_instance = "first"
    /\ s_lazy = [name \in {n \in ModuleNames : wrapped(n)} |-> NotCreated]
    /\ s_invoked = <<>>

InitStatusIdle == InitStatus

\* @status.module(name) decorates a function
ModuleCall(name) ==
    /\ s_modules' = module(s_modules, name).modules
    /\ s_raised' = module(s_modules, name).raised
    /\ s_text' = NotEvaluated
    /\ s_out' = NotEvaluated
    /\ s_invoked' = <<>>
    /\ s_lazy' = IF module(s_modules, name).raised = "none"
                 THEN [s_lazy EXCEPT ![name] = NotCreated]
                 ELSE s_lazy
    /\ UNCHANGED <<s_world, s_instance, s_cache, s_log, modeVars, parseVars, pathVars, expandVars, runVars, aliasVars, manipVars, externalVars, exitVars, openVars, interruptVars, commandlineVars>>

\* evaluate(text) is called
EvaluateCall(text) ==
    \E st \in {evaluate([text |-> text, cache |-> s_cache, log |-> s_log,
                          lazy |-> s_lazy, invoked |-> <<>>, ret |-> <<>>,
                          world |-> s_world, instance |-> s_instance],
                         s_modules)} :
    /\ s_text' = text
    /\ s_out' = st.text
    /\ s_cache' = st.cache
    /\ s_log' = st.log
    /\ s_lazy' = st.lazy
    /\ s_invoked' = st.invoked
    /\ s_raised' = "none"
    /\ UNCHANGED <<s_world, s_instance, s_modules, modeVars, parseVars, pathVars, expandVars, runVars, aliasVars, manipVars, externalVars, exitVars, openVars, interruptVars, commandlineVars>>

\* the text an object of the class holds changes (the value a status
\* method reports, such as the current path or zoom level)
WorldChanges(i) ==
    /\ s_world' = [s_world EXCEPT ![i] = IF @ = <<"x">> THEN <<"y">> ELSE <<"x">>]
    /\ s_text' = NotEvaluated
    /\ s_out' = NotEvaluated
    /\ s_invoked' = <<>>
    /\ UNCHANGED <<s_modules, s_cache, s_log, s_raised, s_instance, s_lazy, modeVars, parseVars, pathVars, expandVars, runVars, aliasVars, manipVars, externalVars, exitVars, openVars, interruptVars, commandlineVars>>

\* a second object of the class is constructed and registered in the place
\* of the first
ObjregRegisters(i) ==
    /\ s_instance = "first"
    /\ i # s_instance
    /\ s_instance' = i
    /\ UNCHANGED <<s_modules, s_cache, s_log, s_raised, s_world, s_lazy, s_text, s_out, s_invoked, modeVars, parseVars, pathVars, expandVars, runVars, aliasVars, manipVars, externalVars, exitVars, openVars, interruptVars, commandlineVars>>

----------------------------------------------------------------------------
(* vimiv/imutils/immanipulate.py: Manipulator, ManipulateRunner            *)

\* number of edits dispatched in a behaviour
MaxEdits == 3

RunnerIds == 1..MaxEdits

\* the keys of Manipulator.manipulations
ManipulationNames == {"brightness", "contrast"}

\* {"brightness": 0, "contrast": 0}
Unchanged == [name \in ManipulationNames |-> 0]

\* the images that are opened, one after the other
Images == {"first", "second"}

\* the pixmap of an image as set_pixmap or the file handler stores it in
\* ImageFileHandler.current: by is 0 for the transformed pixmap, else the id
\* of the ManipulateRunner that made it from the values in value
Pixmap(image, by, value) == [image |-> image, by |-> by, value |-> value]

\* clamp keeping the lower boundary only
clamp_minimum_only(value, minimum, maximum) ==
    IF value < minimum THEN minimum ELSE value

\* utils.clamp(value, minimum, maximum), both boundaries given
clamp(value, minimum, maximum) ==
    LET v == IF value > minimum THEN value ELSE minimum
    IN  IF v < maximum THEN v ELSE maximum

\* Manipulator.changed()
Manipulator_changed(m) == m.manipulations # Unchanged

\* Manipulator.reset(): if anything was edited the current pixmap becomes
\* the transformed one and the manipulations are set to 0
Manipulator_reset(m) ==
    IF Manipulator_changed(m)
    THEN [m EXCEPT !.pixmap = Pixmap(m.image, 0, Unchanged),
                   !.manipulations = Unchanged,
                   !.reset = TRUE]
    ELSE m

\* _update_manipulation starting the runner with the id of the edit before
update_manipulation_same_id(m, name, value) ==
    IF value = <<>> THEN [m EXCEPT !.current = name]
    ELSE LET id == IF m.thread_id = 0 THEN 1 ELSE m.thread_id IN
         [m EXCEPT !.current = name,
                   !.manipulations[name] = clamp(value[1], -127, 127),
                   !.thread_id = id,
                   !.dispatched = Append(@, id),
                   !.runners[id] = [pc |-> "sleeping", image |-> m.image,
                                    value |-> Unchanged],
                   !.reset = FALSE]

\* _update_manipulation(name, value), value <<>> for None: the clamped value
\* is stored, thread_id is incremented and a ManipulateRunner with the new id
\* is started; its run() retrieves the unmanipulated image and sleeps for
\* WAIT_TIME. burst records the runners that were still asleep when the next
\* edit came.
update_manipulation(m, name, value) ==
    IF value = <<>> THEN [m EXCEPT !.current = name]
    ELSE LET id == m.thread_id + 1 IN
         [m EXCEPT !.current = name,
                   !.manipulations[name] = clamp(value[1], -127, 127),
                   !.thread_id = id,
                   !.dispatched = Append(@, id),
                   !.burst = IF m.thread_id \in RunnerIds
                                 /\ m.runners[m.thread_id].pc = "sleeping"
                             THEN @ \cup {m.thread_id} ELSE @,
                   !.runners[id] = [pc |-> "sleeping", image |-> m.image,
                                    value |-> Unchanged],
                   !.reset = FALSE]

\* brightness(value, count) and contrast(value, count), count <<>> for None
Manipulator_level(m, name, value, count) ==
    update_manipulation(m, name, IF count # <<>> THEN count ELSE <<value>>)

\* increase(value, count)
Manipulator_increase(m, value, count) ==
    update_manipulation(m, m.current,
                        <<m.manipulations[m.current] + value * count>>)

\* decrease(value, count)
Manipulator_decrease(m, value, count) ==
    update_manipulation(m, m.current,
                        <<m.manipulations[m.current] - value * count>>)

\* set(value, count), count <<>> for None
Manipulator_set(m, value, count) ==
    update_manipulation(m, m.current, IF count # <<>> THEN count ELSE <<value>>)

\* ManipulateRunner.run after the sleep, without the comparison of the ids
run_wakes_unchecked(m, id) == [m EXCEPT !.runners[id].pc = "checked"]

\* ManipulateRunner.run after time.sleep(WAIT_TIME): return if another edit
\* was dispatched in the meantime
run_wakes(m, id) ==
    [m EXCEPT !.runners[id].pc =
                  IF id # m.thread_id THEN "returned" ELSE "checked"]

\* ManipulateRunner.run: the manipulations are read and the C function runs
run_manipulates(m, id) ==
    [m EXCEPT !.runners[id].pc = "manipulated",
              !.runners[id].value = m.manipulations]

\* ManipulateRunner.run: set_pixmap with the image made from the image the
\* runner retrieved when it started
run_sets_pixmap(m, id) ==
    [m EXCEPT !.runners[id].pc = "done",
              !.pixmap = Pixmap(m.runners[id].image, id, m.runners[id].value),
              !.pixmaps = Append(@, [id |-> id, thread_id |-> m.thread_id])]

\* ImageFileHandler._on_new_image_opened: _maybe_write resets the
\* manipulations (with autowrite after the changed image was handed to
\* write_pixmap), then _load stores the pixmap of the new image
on_new_image_opened(m, path) ==
    [Manipulator_reset(m) EXCEPT !.image = path,
                                 !.pixmap = Pixmap(path, 0, Unchanged),
                                 !.reset = TRUE]

\* the Manipulator and the current pixmap of the file handler
ManipState ==
    [thread_id |-> thread_id, manipulations |-> manipulations,
     current |-> m_current, runners |-> runners, pixmaps |-> pixmaps,
     dispatched |-> m_dispatched, burst |-> m_burst, image |-> m_image,
     pixmap |-> m_pixmap, reset |-> m_reset]

\* the effect of one step on them, m being the state it ends in
ManipStep(m) ==
    /\ thread_id' = m.thread_id
    /\ manipulations' = m.manipulations
    /\ m_current' = m.current
    /\ runners' = m.runners
    /\ pixmaps' = m.pixmaps
    /\ m_dispatched' = m.dispatched
    /\ m_burst' = m.burst
    /\ m_image' = m.image
    /\ m_pixmap' = m.pixmap
    /\ m_reset' = m.reset
    /\ UNCHANGED <<modeVars, parseVars, pathVars, expandVars, runVars, aliasVars, statusVars, externalVars, exitVars, openVars, interruptVars, commandlineVars>>

\* Manipulator.__init__ and the first image loaded: no edit yet, no runner,
\* set_pixmap never called
InitManipulator ==
    /\ thread_id = 0
    /\ manipulations = Unchanged
    /\ m_current = "brightness"
    /\ runners = [id \in RunnerIds |->
                     [pc |-> "none", image |-> "first", value |-> Unchanged]]
    /\ pixmaps = <<>>
    /\ m_dispatched = <<>>
    /\ m_burst = {}
    /\ m_image = "first"
    /\ m_pixmap = Pixmap("first", 0, Unchanged)
    /\ m_reset = FALSE

\* values an edit sets the brightness to while runners run
EditValues == {10, 20}

\* values given to brightness and contrast: ManipulateLevel, -127 to 127
ManipulateLevels == {-100, 50}

\* counts given to brightness, contrast and set
LevelCounts == {<<>>, <<100>>}

\* values given to set
SetValues == {-300, 300}

\* values and counts given to increase and decrease
StepValues == {1, 100}

StepCounts == {1, 2}

\* :brightness or :contrast is run
LevelCall(name, value, count) ==
    /\ thread_id < MaxEdits
    /\ ManipStep(Manipulator_level(ManipState, name, value, count))

\* :increase is run
IncreaseCall(value, count) ==
    /\ thread_id < MaxEdits
    /\ ManipStep(Manipulator_increase(ManipState, value, count))

\* :decrease is run
DecreaseCall(value, count) ==
    /\ thread_id < MaxEdits
    /\ ManipStep(Manipulator_decrease(ManipState, value, count))

\* :set is run
SetCall(value, count) ==
    /\ thread_id < MaxEdits
    /\ ManipStep(Manipulator_set(ManipState, value, count))

\* write_pixmap hands the image to a WriteImageRunner and resets
ResetCall ==
    /\ Manipulator_changed(ManipState)
    /\ ManipStep(Manipulator_reset(ManipState))

\* the second image is opened
NewImageOpened ==
    /\ m_image = "first"
    /\ ManipStep(on_new_image_opened(ManipState, "second"))

RunnerWakes(id) ==
    /\ runners[id].pc = "sleeping"
    /\ ManipStep(run_wakes(ManipState, id))

RunnerManipulates(id) ==
    /\ runners[id].pc = "checked"
    /\ ManipStep(run_manipulates(ManipState, id))

RunnerSetsPixmap(id) ==
    /\ runners[id].pc = "manipulated"
    /\ ManipStep(run_sets_pixmap(ManipState, id))

----------------------------------------------------------------------------
(* vimiv/commands/runners.py: ExternalRunner, ShellCommandRunnable         *)

\* number of external commands started in a behaviour
MaxRunnables == 2

\* the threads: the main loop and the threads of the QThreadPool
MainThread == "main"

PoolThread == "pool"

Bar == "|"

RECURSIVE rstrip_bar(_)
\* text.rstrip("|")
rstrip_bar(text) ==
    IF text # <<>> /\ text[Len(text)] = Bar
    THEN rstrip_bar(SubSeq(text, 1, Len(text) - 1)) ELSE text

\* ShellCommandRunnable.__init__
ShellCommandRunnable(text) ==
    [text |-> strip(rstrip_bar(text)),
     pipe |-> text # <<>> /\ text[Len(text)] = Bar,
     done |-> FALSE,
     raised |-> "none"]

\* a connection made with every slot called in the emitting thread
connect_direct(emitter) == "direct"

\* pipe_output_received.connect(self._on_pipe_output_received): the
\* ExternalRunner lives in the main thread, so a signal emitted in another
\* thread is queued for the main loop and one emitted in the main thread
\* calls the slot directly
connect(emitter) == IF emitter # MainThread THEN "queued" ELSE "direct"

\* what a path is: a supported image, a directory, or neither
PathKinds == {"image", "directory", "other"}

\* files.supported(paths): the images and the directories among the paths
supported(paths) ==
    [images |-> SelectSeq(paths, LAMBDA path : path = "image"),
     directories |-> SelectSeq(paths, LAMBDA path : path = "directory")]

\* the paths in the stdout of a pipe command that exist, each by what it is
Stdouts == {<<"image">>, <<"directory">>, <<"other">>}

\* app.open that looks for directories before images
open_directories_first(s, paths) ==
    IF supported(paths).directories # <<>> THEN enter(s, LIBRARY)
    ELSE IF supported(paths).images # <<>> THEN enter(s, IMAGE)
    ELSE [s EXCEPT !.raised = "CommandError"]

\* app.open(paths): image mode for images, library mode for directories,
\* CommandError otherwise
open(s, paths) ==
    IF supported(paths).images # <<>> THEN enter(s, IMAGE)
    ELSE IF supported(paths).directories # <<>> THEN enter(s, LIBRARY)
    ELSE [s EXCEPT !.raised = "CommandError"]

\* number of paths given to open
MaxPaths == 2

\* the arguments of open: one path or more
PathLists ==
    UNION {[1..n -> PathKinds] : n \in 1..MaxPaths}

\* o_paths while open has not been called since the last mode change
NotOpened == <<"not called">>

InitOpen == o_paths = NotOpened

\* the command open(paths)
OpenCall(paths) ==
    /\ ModeCall(open(ModeState, paths))
    /\ o_paths' = paths
    /\ UNCHANGED <<parseVars, pathVars, expandVars, runVars, aliasVars, statusVars, manipVars, externalVars, exitVars, interruptVars, commandlineVars>>

\* a mode is entered or left by something else than open
OpenModeCall(mode) ==
    /\ EnterCall(mode) \/ LeaveCall(mode)
    /\ o_paths' = NotOpened
    /\ UNCHANGED <<parseVars, pathVars, expandVars, runVars, aliasVars, statusVars, manipVars, externalVars, exitVars, interruptVars, commandlineVars>>

\* _on_pipe_output_received(cmd, stdout) run by a thread
on_pipe_output_received(x, thread, cmd, stdout) ==
    LET s == open(x.modes, stdout)
        x1 == [x EXCEPT !.slot_calls =
                            Append(@, [thread |-> thread, cmd |-> cmd,
                                       stdout |-> stdout])]
    IN  IF s.raised = "CommandError"
        THEN [x1 EXCEPT !.log = Append(@, [thread |-> thread,
                                          level |-> "warning",
                                          msg |-> "No paths from pipe"])]
        ELSE [x1 EXCEPT !.modes = s,
                        !.log = Append(@, [thread |-> thread,
                                           level |-> "debug",
                                           msg |-> "Opened paths from pipe"])]

\* pipe_output_received.emit(cmd, stdout) in a thread
pipe_output_received_emit(x, thread, cmd, stdout) ==
    IF connect(thread) = "queued"
    THEN [x EXCEPT !.events = Append(@, [cmd |-> cmd, stdout |-> stdout])]
    ELSE on_pipe_output_received(x, thread, cmd, stdout)

\* the bytes captured from a process: valid UTF-8 or not, and the text
\* they stand for
Captured(texts) == [utf8 : BOOLEAN, text : texts]

\* bytes.decode() returns; it raises UnicodeDecodeError otherwise
decodes(bytes) == bytes.utf8

\* the captured stdout of a process
RawStdouts == Captured(Stdouts)

\* the captured stderr of a process, its text given as split("\n") gives
\* it: here two lines
Stderrs == Captured({<<"e1", "e2">>})

\* the exit statuses of a process
ReturnCodes == {0, 1, 2}

\* ShellCommandRunnable.run in a thread of the pool; raised is the exception
\* that leaves run()
ShellCommandRunnable_run(x, runnable, returncode, stdout, stderr) ==
    IF returncode # 0
    THEN IF decodes(stderr)
         THEN [x EXCEPT !.log = Append(@, [thread |-> PoolThread,
                                          level |-> "error",
                                          code |-> returncode,
                                          msg |-> stderr.text[1]])]
         ELSE [x EXCEPT !.raised = "UnicodeDecodeError"]
    ELSE IF runnable.pipe
    THEN IF decodes(stdout)
         THEN pipe_output_received_emit(x, PoolThread, runnable.text,
                                        stdout.text)
         ELSE [x EXCEPT !.raised = "UnicodeDecodeError"]
    ELSE [x EXCEPT !.log = Append(@, [thread |-> PoolThread, level |-> "debug",
                                     msg |-> "Ran succesfully"])]

\* the state a step of the external runner starts from
ExternalState ==
    [modes |-> ModeState, events |-> events, slot_calls |-> slot_calls,
     log |-> x_log, raised |-> "none"]

\* the state a step of the external runner ends in
ExternalStep(x) ==
    /\ events' = x.events
    /\ slot_calls' = x.slot_calls
    /\ x_log' = x.log
    /\ ModeCall(x.modes)

\* texts given to external(): a command and the same command in pipe mode
Text_ls == <<"l", "s">>

Text_ls_pipe == <<"l", "s", Space, Bar>>

ExternalTexts == {Text_ls, Text_ls_pipe}

\* no external command has been started
InitExternal ==
    /\ runnables = <<>>
    /\ events = <<>>
    /\ slot_calls = <<>>
    /\ x_log = <<>>

\* ExternalRunner.__call__(text) in the main loop
ExternalRunnerCall(text) ==
    /\ Len(runnables) < MaxRunnables
    /\ runnables' = Append(runnables, ShellCommandRunnable(text))
    /\ UNCHANGED <<events, slot_calls, x_log, modeVars, parseVars, pathVars, expandVars, runVars, aliasVars, statusVars, manipVars, exitVars, openVars, interruptVars, commandlineVars>>

\* a thread of the pool runs ShellCommandRunnable.run to its end
RunnableRuns(k, returncode, stdout, stderr) ==
    LET x == ShellCommandRunnable_run(ExternalState, runnables[k],
                                      returncode, stdout, stderr)
    IN  /\ k \in DOMAIN runnables
        /\ ~runnables[k].done
        /\ runnables' = [runnables EXCEPT ![k].done = TRUE,
                                          ![k].raised = x.raised]
        /\ ExternalStep(x)
        /\ UNCHANGED <<parseVars, pathVars, expandVars, runVars, aliasVars, statusVars, manipVars, exitVars, openVars, interruptVars, commandlineVars>>

\* the main loop delivers the oldest queued signal to its slot
MainLoopDelivers ==
    /\ events # <<>>
    /\ ExternalStep(on_pipe_output_received(
                        [ExternalState EXCEPT !.events = Tail(@)], MainThread,
                        Head(events).cmd, Head(events).stdout))
    /\ UNCHANGED <<runnables, parseVars, pathVars, expandVars, runVars, aliasVars, statusVars, manipVars, exitVars, openVars, interruptVars, commandlineVars>>

\* the main loop runs a mode transition of its own
MainLoopEnters(mode) ==
    /\ EnterCall(mode)
    /\ UNCHANGED <<externalVars, parseVars, pathVars, expandVars, runVars, aliasVars, statusVars, manipVars, exitVars, openVars, interruptVars, commandlineVars>>

----------------------------------------------------------------------------
(* vimiv/app.py: Application.exit; the aboutToQuit handlers of             *)
(* immanipulate.py and _file_handler.py                                    *)

\* number of tasks started before the application exits
MaxTasks == 3

\* QThreadPool.globalInstance(), used by ExternalRunner and ImageFileHandler
GlobalPool == "global"

\* Manipulator.pool = QThreadPool()
ManipulatePool == "manipulate"

\* the QRunnables of the program and the pool each is started on
TaskKinds ==
    {[pool |-> GlobalPool, kind |-> "ShellCommandRunnable"],
     [pool |-> GlobalPool, kind |-> "WriteImageRunner"],
     [pool |-> ManipulatePool, kind |-> "ManipulateRunner"]}

\* QThreadPool.maxThreadCount(), by default the number of cores of the
\* machine: the threads each pool has
maxThreadCount == 1

\* pool.activeThreadCount() < pool.maxThreadCount()
thread_free(ts, pool) ==
    Cardinality({k \in DOMAIN ts :
                    ts[k].pool = pool /\ ts[k].state = "running"})
        < maxThreadCount

\* pool.start(runnable): the runnable is run by a free thread of the pool,
\* or waits in the queue of the pool for one
pool_start(ts, pool, kind, hangs) ==
    Append(ts, [pool |-> pool, kind |-> kind,
                state |-> IF thread_free(ts, pool) THEN "running"
                          ELSE "queued",
                hangs |-> hangs])

\* pool.clear(): the runnables of the pool that are not yet started are
\* removed from its queue
pool_clear(ts, pool) ==
    [k \in DOMAIN ts |->
        IF ts[k].pool = pool /\ ts[k].state = "queued"
        THEN [ts[k] EXCEPT !.state = "cleared"] ELSE ts[k]]

\* pool.waitForDone() returns: no runnable of the pool is queued or running
pool_done(ts, pool) ==
    \A k \in DOMAIN ts :
        ts[k].pool = pool => ts[k].state \notin {"queued", "running"}

\* the application runs and no task has been started
InitExit ==
    /\ tasks = <<>>
    /\ exit_pc = "exec"
    /\ exit_arg = <<>>
    /\ exit_status = <<>>

\* the main loop starts a task: external(text), write_pixmap or
\* _update_manipulation
StartTask(task, hangs) ==
    /\ exit_pc = "exec"
    /\ Len(tasks) < MaxTasks
    /\ tasks' = pool_start(tasks, task.pool, task.kind, hangs)
    /\ UNCHANGED <<exit_pc, exit_arg, exit_status, modeVars, parseVars, pathVars, expandVars, runVars, aliasVars, statusVars, manipVars, externalVars, openVars, interruptVars, commandlineVars>>

\* a thread of its pool that became free takes a queued runnable and calls
\* run()
PoolRuns(k) ==
    /\ exit_pc # "exited"
    /\ k \in DOMAIN tasks
    /\ tasks[k].state = "queued"
    /\ thread_free(tasks, tasks[k].pool)
    /\ tasks' = [tasks EXCEPT ![k].state = "running"]
    /\ UNCHANGED <<exit_pc, exit_arg, exit_status, modeVars, parseVars, pathVars, expandVars, runVars, aliasVars, statusVars, manipVars, externalVars, openVars, interruptVars, commandlineVars>>

\* run() of a runnable that finishes returns
TaskFinishes(k) ==
    /\ exit_pc # "exited"
    /\ k \in DOMAIN tasks
    /\ tasks[k].state = "running"
    /\ ~tasks[k].hangs
    /\ tasks' = [tasks EXCEPT ![k].state = "done"]
    /\ UNCHANGED <<exit_pc, exit_arg, exit_status, modeVars, parseVars, pathVars, expandVars, runVars, aliasVars, statusVars, manipVars, externalVars, openVars, interruptVars, commandlineVars>>

\* Application.exit(returncode): QThreadPool.globalInstance().clear()
Application_exit_clear(returncode) ==
    /\ exit_pc = "exec"
    /\ tasks' = pool_clear(tasks, GlobalPool)
    /\ exit_pc' = "waitForDone"
    /\ exit_arg' = <<returncode>>
    /\ UNCHANGED <<exit_status, modeVars, parseVars, pathVars, expandVars, runVars, aliasVars, statusVars, manipVars, externalVars, openVars, commandlineVars>>

\* the command quit: self.exit(0)
quit == Application_exit_clear(0) /\ UNCHANGED interruptVars

\* Application.exit: QThreadPool.globalInstance().waitForDone() returns, and
\* super().exit(returncode) ends the main loop, which emits aboutToQuit
Application_exit_waitForDone ==
    /\ exit_pc = "waitForDone"
    /\ pool_done(tasks, GlobalPool)
    /\ exit_pc' = "aboutToQuit"
    /\ UNCHANGED <<tasks, exit_arg, exit_status, modeVars, parseVars, pathVars, expandVars, runVars, aliasVars, statusVars, manipVars, externalVars, openVars, interruptVars, commandlineVars>>

\* Manipulator._on_quit, the first handler connected to aboutToQuit:
\* pool.clear() and pool.waitForDone(5000), which returns after 5 s at most
Manipulator_on_quit ==
    /\ exit_pc = "aboutToQuit"
    /\ tasks' = pool_clear(tasks, ManipulatePool)
    /\ exit_pc' = "Manipulator quit"
    /\ UNCHANGED <<exit_arg, exit_status, modeVars, parseVars, pathVars, expandVars, runVars, aliasVars, statusVars, manipVars, externalVars, openVars, interruptVars, commandlineVars>>

\* ImageFileHandler._maybe_write(path): write_pixmap when autowrite is set
\* and the image was changed
maybe_write(ts, autowrite, changed, hangs) ==
    IF autowrite /\ changed
    THEN pool_start(ts, GlobalPool, "WriteImageRunner", hangs) ELSE ts

\* ImageFileHandler._on_quit, the second handler connected to aboutToQuit:
\* _maybe_write and _pool.waitForDone(5000), which returns after 5 s at
\* most; the main loop then returns the returncode and the process exits
ImageFileHandler_on_quit(autowrite, changed, hangs) ==
    /\ exit_pc = "Manipulator quit"
    /\ tasks' = maybe_write(tasks, autowrite, changed, hangs)
    /\ exit_pc' = "exited"
    /\ exit_status' = exit_arg
    /\ UNCHANGED <<exit_arg, modeVars, parseVars, pathVars, expandVars, runVars, aliasVars, statusVars, manipVars, externalVars, openVars, interruptVars, commandlineVars>>

----------------------------------------------------------------------------
(* vimiv/utils/crash_handler.py: CrashHandler                              *)

SIGINT == 2

SIGTERM == 15

\* the signals _assign_interrupt_handler assigns a handler to
InterruptSignals == {SIGINT, SIGTERM}

\* _assign_interrupt_handler(handler)
assign_interrupt_handler(handler) == [sig \in InterruptSignals |-> handler]

\* handle_interrupt that installs the forceful handler for the received
\* signal only
handle_interrupt_one_signal(i, signum) ==
    [i EXCEPT !.handlers = [@ EXCEPT ![signum] = "handle_interrupt_forcefully"],
              !.timers = Append(@, 128 + signum)]

\* CrashHandler.handle_interrupt(signum, _frame)
handle_interrupt(i, signum) ==
    [i EXCEPT !.handlers = assign_interrupt_handler("handle_interrupt_forcefully"),
              !.timers = Append(@, 128 + signum)]

\* CrashHandler.handle_interrupt_forcefully(signum, _frame): sys.exit
handle_interrupt_forcefully(i, signum) ==
    [i EXCEPT !.exit_status = <<128 + signum>>]

\* CommandLine.__init__: self.mode = None, nothing submitted
InitCommandLine ==
    /\ c_mode = None
    /\ c_timers = <<>>
    /\ c_ran = <<>>
    /\ c_origin = None

\* CrashHandler.__init__: handle_interrupt is assigned to both signals
InitInterrupt ==
    /\ handlers = assign_interrupt_handler("handle_interrupt")
    /\ timers = <<>>
    /\ handled = <<>>

\* SIGINT or SIGTERM is delivered: Python calls the installed handler when
\* the main thread runs Python code, which it does not while it waits in
\* waitForDone()
SignalDelivered(signum) ==
    LET i == [handlers |-> handlers, timers |-> timers,
              exit_status |-> exit_status]
        j == IF handlers[signum] = "handle_interrupt"
             THEN handle_interrupt(i, signum)
             ELSE handle_interrupt_forcefully(i, signum)
    IN  /\ exit_pc \notin {"waitForDone", "exited"}
        /\ handlers' = j.handlers
        /\ timers' = j.timers
        /\ exit_status' = j.exit_status
        /\ exit_pc' = IF j.exit_status # <<>> THEN "exited" ELSE exit_pc
        /\ handled' = Append(handled, [signum |-> signum,
                                       handler |-> handlers[signum]])
        /\ UNCHANGED <<tasks, exit_arg, modeVars, parseVars, pathVars, expandVars, runVars, aliasVars, statusVars, manipVars, externalVars, openVars, commandlineVars>>

\* the main loop runs the call scheduled with QTimer.singleShot(0, ...):
\* Application.exit(128 + signum)
TimerFires ==
    /\ timers # <<>>
    /\ Application_exit_clear(Head(timers))
    /\ timers' = Tail(timers)
    /\ UNCHANGED <<handlers, handled, commandlineVars>>

----------------------------------------------------------------------------
(* Specifications                                                          *)

NextParse == ParseCall

\* every text of the bound is about to be parsed
InitSpecParse == InitModes /\ InitParse /\ InitExpandIdle /\ InitRun
    /\ InitAliasIdle
    /\ InitStatusIdle
    /\ InitManipulator
    /\ InitExternal
    /\ InitExit
    /\ InitOpen
    /\ InitInterrupt
    /\ InitCommandLine

SpecParse == InitSpecParse /\ [][NextParse]_vars

NextExpand == ExpandCall

\* every text, mark list and current path of the bound is about to be expanded
InitSpecExpand == InitModes /\ InitParseIdle /\ InitExpand /\ InitRun
    /\ InitAliasIdle
    /\ InitStatusIdle
    /\ InitManipulator
    /\ InitExternal
    /\ InitExit
    /\ InitOpen
    /\ InitInterrupt
    /\ InitCommandLine

SpecExpand == InitSpecExpand /\ [][NextExpand]_vars

NextAlias == AliasCall

\* every text and mode of the bound is about to be given to alias
InitSpecAlias ==
    /\ InitModes /\ InitParseIdle /\ InitExpandIdle /\ InitRun
    /\ InitAlias
    /\ InitStatusIdle
    /\ InitManipulator
    /\ InitExternal
    /\ InitExit
    /\ InitOpen
    /\ InitInterrupt
    /\ InitCommandLine

SpecAlias == InitSpecAlias /\ [][NextAlias]_vars

NextStatus ==
    \/ \E name \in ModuleNames : ModuleCall(name)
    \/ \E text \in StatusTexts : EvaluateCall(text)
    \/ \E i \in Instances : WorldChanges(i)
    \/ \E i \in Instances : ObjregRegisters(i)

\* the status module table is empty
InitSpecStatus ==
    /\ InitModes /\ InitParseIdle /\ InitExpandIdle /\ InitRun
    /\ InitAliasIdle
    /\ InitStatus
    /\ InitManipulator
    /\ InitExternal
    /\ InitExit
    /\ InitOpen
    /\ InitInterrupt
    /\ InitCommandLine

SpecStatus == InitSpecStatus /\ [][NextStatus]_vars

NextLevels ==
    \/ \E name \in ManipulationNames, value \in ManipulateLevels,
          count \in LevelCounts : LevelCall(name, value, count)
    \/ \E value \in StepValues, count \in StepCounts : IncreaseCall(value, count)
    \/ \E value \in StepValues, count \in StepCounts : DecreaseCall(value, count)
    \/ \E value \in SetValues, count \in LevelCounts : SetCall(value, count)
    \/ ResetCall

\* the Manipulator has been created
InitSpecLevels ==
    /\ InitModes /\ InitParseIdle /\ InitExpandIdle /\ InitRun
    /\ InitAliasIdle
    /\ InitStatusIdle
    /\ InitManipulator
    /\ InitExternal
    /\ InitExit
    /\ InitOpen
    /\ InitInterrupt
    /\ InitCommandLine

SpecLevels == InitSpecLevels /\ [][NextLevels]_vars

NextManipulate ==
    \/ \E value \in EditValues : LevelCall("brightness", value, <<>>)
    \/ ResetCall
    \/ NewImageOpened
    \/ \E id \in RunnerIds : RunnerWakes(id)
    \/ \E id \in RunnerIds : RunnerManipulates(id)
    \/ \E id \in RunnerIds : RunnerSetsPixmap(id)

\* the Manipulator has been created
InitSpecManipulate ==
    /\ InitModes /\ InitParseIdle /\ InitExpandIdle /\ InitRun
    /\ InitAliasIdle
    /\ InitStatusIdle
    /\ InitManipulator
    /\ InitExternal
    /\ InitExit
    /\ InitOpen
    /\ InitInterrupt
    /\ InitCommandLine

SpecManipulate == InitSpecManipulate /\ [][NextManipulate]_vars

NextExternal ==
    \/ \E text \in ExternalTexts : ExternalRunnerCall(text)
    \/ \E k \in 1..MaxRunnables, returncode \in ReturnCodes,
          stdout \in RawStdouts, stderr \in Stderrs :
          RunnableRuns(k, returncode, stdout, stderr)
    \/ MainLoopDelivers
    \/ \E mode \in {THUMBNAIL, COMMAND} : MainLoopEnters(mode)

\* the ExternalRunner has been created in the main thread
InitSpecExternal ==
    /\ InitModes /\ InitParseIdle /\ InitExpandIdle /\ InitRun
    /\ InitAliasIdle
    /\ InitStatusIdle
    /\ InitManipulator
    /\ InitExternal
    /\ InitExit
    /\ InitOpen
    /\ InitInterrupt
    /\ InitCommandLine

SpecExternal == InitSpecExternal /\ [][NextExternal]_vars

NextExit ==
    \/ \E task \in TaskKinds, hangs \in BOOLEAN : StartTask(task, hangs)
    \/ \E k \in 1..(MaxTasks + 1) : PoolRuns(k)
    \/ \E k \in 1..(MaxTasks + 1) : TaskFinishes(k)
    \/ quit
    \/ Application_exit_waitForDone
    \/ Manipulator_on_quit
    \/ \E autowrite \in BOOLEAN, changed \in BOOLEAN, hangs \in BOOLEAN :
          ImageFileHandler_on_quit(autowrite, changed, hangs)

\* the application runs its main loop
InitSpecExit ==
    /\ InitModes /\ InitParseIdle /\ InitExpandIdle /\ InitRun
    /\ InitAliasIdle
    /\ InitStatusIdle
    /\ InitManipulator
    /\ InitExternal
    /\ InitExit
    /\ InitOpen
    /\ InitInterrupt
    /\ InitCommandLine

\* the main thread and the threads of the pools keep running: every step
\* that can be taken is taken in the end
SpecExit == InitSpecExit /\ [][NextExit]_vars /\ WF_vars(NextExit)

NextOpen ==
    \/ \E paths \in PathLists : OpenCall(paths)
    \/ \E mode \in GlobalModes \cup {COMMAND} : OpenModeCall(mode)

\* the state after api.modes._init()
InitSpecOpen ==
    /\ InitModes /\ InitParseIdle /\ InitExpandIdle /\ InitRun
    /\ InitAliasIdle
    /\ InitStatusIdle
    /\ InitManipulator
    /\ InitExternal
    /\ InitExit
    /\ InitOpen
    /\ InitInterrupt
    /\ InitCommandLine

SpecOpen == InitSpecOpen /\ [][NextOpen]_vars

NextInterrupt ==
    \/ \E task \in TaskKinds, hangs \in BOOLEAN : StartTask(task, hangs)
    \/ \E k \in 1..(MaxTasks + 1) : PoolRuns(k)
    \/ \E k \in 1..(MaxTasks + 1) : TaskFinishes(k)
    \/ quit
    \/ TimerFires
    \/ Application_exit_waitForDone
    \/ Manipulator_on_quit
    \/ \E autowrite \in BOOLEAN, changed \in BOOLEAN, hangs \in BOOLEAN :
          ImageFileHandler_on_quit(autowrite, changed, hangs)
    \/ \E signum \in InterruptSignals : SignalDelivered(signum)

\* the application runs its main loop with the CrashHandler installed
InitSpecInterrupt ==
    /\ InitModes /\ InitParseIdle /\ InitExpandIdle /\ InitRun
    /\ InitAliasIdle
    /\ InitStatusIdle
    /\ InitManipulator
    /\ InitExternal
    /\ InitExit
    /\ InitOpen
    /\ InitInterrupt
    /\ InitCommandLine

SpecInterrupt == InitSpecInterrupt /\ [][NextInterrupt]_vars

NextModeCalls ==
    NextModes /\ UNCHANGED <<parseVars, pathVars, expandVars, runVars, aliasVars, statusVars, manipVars, externalVars, exitVars, openVars, interruptVars, commandlineVars>>

\* the state after api.modes._init()
InitSpecModes == InitModes /\ InitParseIdle /\ InitExpandIdle /\ InitRun
    /\ InitAliasIdle
    /\ InitStatusIdle
    /\ InitManipulator
    /\ InitExternal
    /\ InitExit
    /\ InitOpen
    /\ InitInterrupt
    /\ InitCommandLine

SpecModes == InitSpecModes /\ [][NextModeCalls]_vars

NextRun ==
    \/ \E text \in RunTexts, count \in RunCounts, mode \in RunModeArgs :
          \E outs \in RunOutcomes(text) : RunCall(text, count, mode, outs)
    \/ \E mode \in RunModes :
          /\ ~active[mode]
          /\ EnterCall(mode)
          /\ RunIdle(r_before', r_in', r_out')
          /\ UNCHANGED <<parseVars, pathVars, expandVars, last_command, aliasVars, statusVars, manipVars, externalVars, exitVars, openVars, interruptVars, commandlineVars>>

\* the state after api.modes._init(), no command run yet
InitSpecRun == InitModes /\ InitParseIdle /\ InitRunPaths /\ InitRun
    /\ InitAliasIdle
    /\ InitStatusIdle
    /\ InitManipulator
    /\ InitExternal
    /\ InitExit
    /\ InitOpen
    /\ InitInterrupt
    /\ InitCommandLine

SpecRun == InitSpecRun /\ [][NextRun]_vars

----------------------------------------------------------------------------
(* Claims about the mode registry, checked under SpecModes                 *)

\* C1: after every enter / leave / toggle call exactly one mode is active,
\* so current() returns a mode and NoMode is never raised.
C1_ExactlyOneActive ==
    /\ Cardinality({m \in Modes : active[m]}) = 1
    /\ current(active) \in Modes
    /\ raised # NoMode

\* COMMAND.leave() has just returned to LIBRARY
C1_Witness ==
    /\ signals = <<<<LIBRARY, "entered">>, <<COMMAND, "left">>>>
    /\ active[LIBRARY]
    /\ pre = COMMAND

\* C2: with a mode X other than command active, COMMAND.enter() directly
\* followed by COMMAND.leave() makes X the active mode again.
C2_CommandRoundTrip ==
    [][(/\ pre # COMMAND
        /\ signals = <<<<COMMAND, "entered">>>>
        /\ LeaveCall(COMMAND))
       => (active'[pre] /\ current(active') = pre)]_vars

\* the round trip library -> command -> library has completed
C2_Witness ==
    /\ pre = COMMAND
    /\ signals = <<<<LIBRARY, "entered">>, <<COMMAND, "left">>>>
    /\ current(active) = LIBRARY
    /\ raised = "none"

\* C3 as claimed: manipulate is not the `last` of any other mode.
C3_ManipulateNeverLast == \A m \in Modes \ {MANIPULATE} : last[m] # MANIPULATE

\* C3 as amended: manipulate is not the `last` of any other mode except
\* command mode, which does store it when entered from manipulate.
C3_ManipulateOnlyLastOfCommand ==
    /\ \A m \in Modes \ {MANIPULATE, COMMAND} : last[m] # MANIPULATE
    /\ (pre = MANIPULATE /\ signals = <<<<COMMAND, "entered">>>>)
           => last[COMMAND] = MANIPULATE

\* image mode has just been entered from manipulate mode
C3_Witness ==
    /\ pre = MANIPULATE
    /\ signals = <<<<IMAGE, "entered">>>>
    /\ active[IMAGE]

\* C4 as claimed: after M.leave() returns, M.last equals M.last_fallback.
C4_LeaveResetsOwnLast ==
    [][\A m \in Modes :
          (active[m] /\ LeaveCall(m) /\ raised' = "none")
          => last'[m] = last_fallback(m)]_vars

\* C4 as amended: after M.leave() returns, M.last is unchanged and the mode
\* that was entered, T = M.last, has T.last equal to T.last_fallback.
C4_LeaveResetsLastOfTarget ==
    [][\A m \in Modes :
          (active[m] /\ LeaveCall(m) /\ raised' = "none")
          => /\ last'[m] = last[m]
             /\ active'[last[m]]
             /\ last'[last[m]] = last_fallback(last[m])]_vars

\* THUMBNAIL.leave() has returned to LIBRARY, whose last is its fallback
C4_Witness ==
    /\ pre = THUMBNAIL
    /\ signals = <<<<LIBRARY, "entered">>, <<THUMBNAIL, "left">>>>
    /\ last[THUMBNAIL] = LIBRARY
    /\ last[LIBRARY] = IMAGE

\* a mode can be entered only if a widget is assigned to it
Enterable(mode) == HasWidget(mode)

\* C5: if the mode remembered as M.last can no longer be entered, M.leave()
\* does not raise, enters M.last_fallback, and exactly one mode is active.
C5_LeaveFallsBack ==
    [][\A m \in Modes :
          (active[m] /\ ~Enterable(last[m]) /\ LeaveCall(m))
          => /\ raised' = "none"
             /\ active'[last_fallback(m)]
             /\ Cardinality({x \in Modes : active'[x]}) = 1]_vars

----------------------------------------------------------------------------
(* Claims about _parse, checked under SpecParse                            *)

\* the tokens shlex.split gives for the text that was parsed
p_split == shlex_split(strip(p_text))

\* C8 as claimed: whenever the token split succeeds, _parse returns (count,
\* name, args) with count the maximal run of leading decimal digits of the
\* first token, name the rest of it, and args the remaining tokens.
C8_ParseDecimalCount ==
    (p_out.exc # "not called" /\ p_split.exc = "none")
    => /\ p_out.exc = "none"
       /\ p_out.count \o p_out.cmdname = p_split.tokens[1]
       /\ \A i \in 1..Len(p_out.count) : p_out.count[i] \in DecimalDigits
       /\ (p_out.cmdname = <<>> \/ Head(p_out.cmdname) \notin DecimalDigits)
       /\ p_out.args = Tail(p_split.tokens)

\* C8 as amended: whenever the token split succeeds with at least one token,
\* _parse returns (count, name, args) with count the maximal run of leading
\* characters of the first token that str.isdigit() accepts, name the rest
\* of it and args the remaining tokens; with no token it raises IndexError.
C8_ParseIsdigitCount ==
    /\ (p_out.exc # "not called" /\ p_split.exc = "none"
            /\ p_split.tokens # <<>>)
       => /\ p_out.exc = "none"
          /\ p_out.count \o p_out.cmdname = p_split.tokens[1]
          /\ \A i \in 1..Len(p_out.count) : isdigit(p_out.count[i])
          /\ (p_out.cmdname = <<>> \/ ~isdigit(Head(p_out.cmdname)))
          /\ p_out.args = Tail(p_split.tokens)
    /\ (p_out.exc # "not called" /\ p_split.exc = "none"
            /\ p_split.tokens = <<>>)
       => p_out.exc = "IndexError"
    /\ (p_out.exc # "not called" /\ p_text = Text_3goto)
       => p_out = Parsed(<<"3">>, <<"g", "o", "t", "o">>, <<>>)
    /\ (p_out.exc # "not called" /\ p_text = Text_goto_3)
       => p_out = Parsed(<<>>, <<"g", "o", "t", "o">>, <<<<"3">>>>)

\* a text with a two-digit count fused to a name was parsed
C8_Witness ==
    /\ p_text = <<"3", "7", "g", Space>> \/ p_text = <<"3", "7", "g", "g">>
    /\ p_out.exc = "none"
    /\ p_out.count = <<"3", "7">>

----------------------------------------------------------------------------
(* Claims about run and repeat_command, checked under SpecRun              *)

\* the observed run() called the function of repeat-command
r_repeated ==
    /\ r_out.calls # <<>>
    /\ r_out.calls[1].name = Name_repeat_command

\* the count the function of repeat-command received in the observed run
r_supplied == to_optional_int(r_out.calls[1].count)

\* C6: repeat_command(count) in a mode with a stored LastCommand calls the
\* stored (name, arguments) of the active mode once, with the supplied count
\* when there is one and the stored count otherwise, and calls no command of
\* another mode.
C6_RepeatUsesActiveMode ==
    (r_repeated /\ r_before[r_in.cur] # <<>>)
    => LET stored == r_before[r_in.cur][1] IN
       /\ Len(r_out.calls) = 2
       /\ r_out.calls[2] =
              Called(stored.Command, stored.Arguments,
                     IF r_supplied # CountNone THEN r_supplied
                     ELSE stored.Count,
                     r_in.cur)

\* in thumbnail mode, with fullscreen stored for image mode and `goto 3` for
\* thumbnail mode, repeat-command with count 2 has called goto again
C6_Witness ==
    /\ r_repeated
    /\ r_in.cur = THUMBNAIL
    /\ r_before[IMAGE] # <<>>
    /\ r_before[IMAGE][1].Command = Name_fullscreen
    /\ r_before[THUMBNAIL] = <<LastCommand(CountStr(<<>>), Name_goto, <<<<"3">>>>)>>
    /\ r_out.calls[2] = Called(Name_goto, <<<<"3">>>>, CountInt(<<"2">>), THUMBNAIL)

\* C7: repeat_command in a mode without a stored LastCommand fails with
\* CommandError "No command to repeat", calls no command and leaves the
\* LastCommand of every mode as it was; run() logs the error and raises
\* nothing.
C7_NothingToRepeat ==
    (r_repeated /\ r_before[r_in.cur] = <<>>)
    => /\ Len(r_out.calls) = 1
       /\ last_command = r_before
       /\ r_out.raised = "none"
       /\ r_out.updates = 0
       /\ r_out.log # <<>>
       /\ r_out.log[1] = [level |-> "error", tag |-> Name_repeat_command,
                          msg |-> "No command to repeat"]

\* repeat-command has failed in image mode while thumbnail mode has a
\* stored command
C7_Witness ==
    /\ r_repeated
    /\ r_in.cur = IMAGE
    /\ r_before[IMAGE] = <<>>
    /\ r_before[THUMBNAIL] # <<>>
    /\ r_out.log[1].msg = "No command to repeat"
    /\ last_command[IMAGE] = <<>>

\* the digit run the text given to the observed run() begins with
r_digits ==
    LET t == strip(r_in.text) IN SubSeq(t, 1, digit_run(t))

\* the observed run() was given a count and a text beginning with a digit
\* run, and called a command
r_two_counts ==
    /\ r_in.count # CountNone
    /\ r_digits # <<>>
    /\ r_out.calls # <<>>

\* C9 as claimed: run(text, count, mode) with a count c and a text beginning
\* with a digit run d calls the command with count d.
C9_TextCountOverrides ==
    r_two_counts => r_out.calls[1].count = CountStr(r_digits)

\* C9 as amended: run(text, count, mode) with a count c and a text beginning
\* with a digit run d calls the command with the count made of the decimal
\* digits of c followed by d.
C9_CountsConcatenated ==
    r_two_counts => r_out.calls[1].count = CountStr(str(r_in.count) \o r_digits)

\* run("3fullscreen", count=2) has called fullscreen with count "23"
C9_Witness ==
    /\ r_in.text = Text_3fullscreen
    /\ r_in.count = CountInt(<<"2">>)
    /\ r_out.calls = <<Called(Name_fullscreen, <<>>, CountStr(<<"2", "3">>),
                              r_in.cur)>>

\* a run() is observed
r_ran == r_in.text # NotRun

\* the text of the observed run() after alias and wildcard expansion
r_updated == update_command(strip(r_in.text), r_in.mode, marks, curpath)

\* the observed run() took the internal-command path
r_internal ==
    /\ r_ran
    /\ strip(r_in.text) # <<>>
    /\ ~(r_updated # <<>> /\ Head(r_updated) = "!")

\* what _parse gives for the text the observed run() handed to command()
r_parse == parse(str(r_in.count) \o r_updated)

\* the mode the observed run() resolved its command in
r_mode == IF r_in.mode # None THEN r_in.mode ELSE r_in.cur

\* the text of the observed run() could not be parsed
r_parse_failed == r_internal /\ r_parse.exc # "none"

\* the command of the observed run() was not found
r_not_found ==
    /\ r_internal
    /\ r_parse.exc = "none"
    /\ ~registered(r_mode, r_parse.cmdname)

\* a command called in the observed run() raised one of the exceptions of
\* api.commands
r_failed ==
    \E k \in DOMAIN r_out.results :
        r_out.results[k] \in {"ArgumentError", "CommandError", "CommandWarning"}

\* the observed run() is a run of fullscreen that succeeded
r_fullscreen_ran ==
    /\ r_in.text = Text_fullscreen
    /\ r_out.calls = <<Called(Name_fullscreen, <<>>, CountStr(str(r_in.count)),
                              r_mode)>>
    /\ r_out.results = <<"none">>

\* C13: no per-invocation error escapes run(): when the text cannot be
\* parsed, the command is not found or a command raises ArgumentError,
\* CommandError or CommandWarning, run() logs and returns normally, and a
\* following run() of a valid command is executed normally.
C13_NoErrorEscapes ==
    /\ [](r_parse_failed \/ r_not_found \/ r_failed
             => r_out.raised = "none" /\ r_out.log # <<>>)
    /\ [][(\E count \in RunCounts, mode \in RunModeArgs :
               RunCall(Text_fullscreen, count, mode,
                       [outer |-> "ok", inner |-> "ok"]))
          => r_fullscreen_ran' /\ r_out'.raised = "none"]_vars

\* C14: after every run of an internal command whose text parses, a status
\* update is emitted, whether the command succeeded, was not found or raised
\* ArgumentError, CommandError or CommandWarning; none is emitted when
\* parsing fails.
C14_StatusUpdateAfterRun ==
    /\ (r_internal /\ r_parse.exc = "none") => r_out.updates >= 1
    /\ r_parse_failed => r_out.updates = 0

\* the runner rejected the command of the observed run(): shlex could not
\* split the text, the command was not found or a command raised
r_rejected ==
    \/ r_internal /\ r_parse.exc = "ValueError"
    \/ r_not_found
    \/ r_failed

\* the log lines of level error or warning of the observed run()
r_error_lines ==
    {k \in DOMAIN r_out.log : r_out.log[k].level \in {"error", "warning"}}

C16_EmptyTextNoOp ==
    (r_ran /\ strip(r_in.text) = <<>>)
    => /\ r_out.calls = <<>>
       /\ r_out.external = <<>>
       /\ last_command = r_before
       /\ r_out.updates = 0
       /\ r_out.log = <<>>
       /\ r_out.raised = "none"

\* run(" ", count=2) has returned in thumbnail mode with commands stored
C16_Witness ==
    /\ r_in.text = Text_blank
    /\ r_in.count = CountInt(<<"2">>)
    /\ r_in.cur = THUMBNAIL
    /\ r_before[THUMBNAIL] # <<>>
    /\ last_command = r_before
    /\ r_out.calls = <<>>

----------------------------------------------------------------------------
(* Claims about expand_percent, checked under SpecExpand                   *)

RECURSIVE one_pass(_, _, _, _)
\* the substitution the documentation describes, in one pass over the input
\* text: every unescaped %m becomes the marked paths joined by spaces, every
\* other unescaped % becomes the (shell-quoted) current path
one_pass(t, i, joined, quoted) ==
    IF i > Len(t) THEN <<>>
    ELSE IF t[i] = Percent /\ (i = 1 \/ t[i - 1] # Backslash)
    THEN IF i < Len(t) /\ t[i + 1] = "m"
         THEN joined \o one_pass(t, i + 2, joined, quoted)
         ELSE quoted \o one_pass(t, i + 1, joined, quoted)
    ELSE <<t[i]>> \o one_pass(t, i + 1, joined, quoted)

\* C10: expand_percent replaces every unescaped %m by the marked paths
\* joined with single spaces and every other unescaped % by the current
\* path, and changes nothing else; `open %m` becomes `open /a.jpg /b.jpg`
\* and `open %` becomes `open /c.jpg`.
C10_ExpandPercent ==
    e_out # NotExpanded
    => /\ e_out = one_pass(e_text, 1, join(marks), shlex_quote(curpath))
       /\ (e_text = Text_open_m /\ marks = <<Path_a, Path_b>>)
              => e_out = <<"o", "p", "e", "n", Space>> \o Path_a
                             \o <<Space>> \o Path_b
       /\ (e_text = Text_open_percent /\ curpath = Path_c)
              => e_out = <<"o", "p", "e", "n", Space>> \o Path_c

\* the positions of the wildcards of the expanded text that a backslash
\* precedes
e_escaped ==
    {i \in 2..Len(e_text) : e_text[i] = Percent /\ e_text[i - 1] = Backslash}

\* C11: a wildcard preceded by a backslash is never expanded: the backslash
\* and the percent sign are in the output as they were, between the
\* expansions of the text before and after them, and a text whose wildcards
\* are all escaped is returned unchanged.
C11_EscapedWildcardKept ==
    e_out # NotExpanded
    => /\ \A i \in e_escaped :
              e_out = expand_percent(SubSeq(e_text, 1, i - 2), marks, curpath)
                          \o <<Backslash, Percent>>
                          \o expand_percent(SubSeq(e_text, i + 1, Len(e_text)),
                                            marks, curpath)
       /\ (\A i \in 1..Len(e_text) : e_text[i] = Percent => i \in e_escaped)
              => e_out = e_text

\* a text with an escaped %m and an unescaped % has been expanded with two
\* marked paths
C11_Witness ==
    /\ e_text = <<Backslash, Percent, "m", Percent>>
    /\ marks = <<Path_a, Path_b>>
    /\ e_out = <<Backslash, Percent, "m">> \o shlex_quote(curpath)

----------------------------------------------------------------------------
(* Claims about alias, checked under SpecAlias                             *)

\* the rest of a text after its first whitespace-delimited token
a_rest == SubSeq(a_text, Len(first_word(a_text)) + 1, Len(a_text))

\* C12: alias replaces only the first whitespace-delimited token, and only
\* when it is an alias of the mode; the rest of the text is unchanged even
\* where it contains the alias name, and the expansion is not expanded again.
C12_AliasFirstTokenOnly ==
    a_out # NotAliased
    => LET hits == {a \in aliases_get(a_mode) : a.alias = first_word(a_text)}
       IN  IF hits = {} THEN a_out = a_text
           ELSE \E a \in hits : a_out = a.command \o a_rest

----------------------------------------------------------------------------
(* Claims about the status modules, checked under SpecStatus               *)

\* the text the function of a registered module returns in this state
s_output(token) ==
    Output(token, IF is_method(token) /\ s_lazy[token].created > 0
                  THEN s_world[s_lazy[token].instance[1]]
                  ELSE <<>>)

RECURSIVE tokens_replaced(_, _, _)
\* the text t from position i on with each token {...} of a registered
\* module replaced by the output of the module and every other token
\* replaced by the empty string
tokens_replaced(t, i, modules) ==
    IF i > Len(t) THEN <<>>
    ELSE IF t[i] = LBrace /\ closing(t, i + 1) # 0
    THEN LET token == SubSeq(t, i, closing(t, i + 1)) IN
         (IF token \in modules THEN s_output(token) ELSE <<>>)
             \o tokens_replaced(t, closing(t, i + 1) + 1, modules)
    ELSE <<t[i]>> \o tokens_replaced(t, i + 1, modules)

\* the tokens of the evaluated text that belong to no registered module
s_unknown ==
    IF s_text = NotEvaluated THEN {}
    ELSE {findall(s_text, 1)[k] : k \in DOMAIN findall(s_text, 1)} \ s_modules

\* the warning for every unknown token evaluated so far was logged exactly
\* once
s_warned_once ==
    /\ \A j, k \in DOMAIN s_log : s_log[j] = s_log[k] => j = k
    /\ \A token \in s_unknown : \E k \in DOMAIN s_log : s_log[k] = token

\* C17: evaluate replaces each token of a registered module by the output
\* of that module and each unregistered token by the empty string; over any
\* sequence of evaluate calls the warning for an unregistered token is
\* logged exactly once.
C17_EvaluateWarnsOnce ==
    /\ s_text # NotEvaluated
       => s_out = tokens_replaced(s_text, 1, s_modules)
    /\ s_warned_once

\* C18: registering a status module whose name does not both start with {
\* and end with } fails with InvalidModuleName and leaves the module table
\* unchanged, so every key of the module table is wrapped in braces.
C18_ModuleNamesWrapped ==
    /\ [](\A name \in s_modules :
             /\ Len(name) >= 1
             /\ name[1] = LBrace
             /\ name[Len(name)] = RBrace)
    /\ [][\A name \in ModuleNames :
             (ModuleCall(name)
                  /\ (name = <<>> \/ name[1] # LBrace \/ name[Len(name)] # RBrace))
             => (s_raised' = "InvalidModuleName" /\ s_modules' = s_modules)]_vars

\* after {a} was registered, a registration with a name that is not wrapped
\* has failed
C18_Witness ==
    /\ s_raised = "InvalidModuleName"
    /\ s_modules = {Mod_a}

----------------------------------------------------------------------------
(* Claims about the manipulation runners, checked under SpecManipulate     *)

\* C19: when edit N+1 is dispatched before the runner of edit N has
\* completed, the result of N is never applied to the pixmap: a runner
\* applies its result only if its id still equals thread_id.
C19_StaleResultDiscarded ==
    \A k \in DOMAIN pixmaps : pixmaps[k].id = pixmaps[k].thread_id

----------------------------------------------------------------------------
(* Claims about the external runner, checked under SpecExternal            *)

\* C20: the result of a pipe-mode external command never touches mode or
\* command state from the worker thread: the worker only emits the
\* completion event, and the paths are opened and the mode is changed by
\* the main loop, one event at a time.
C20_PipeResultOnMainLoop ==
    /\ [](\A k \in DOMAIN slot_calls : slot_calls[k].thread = MainThread)
    /\ [][\A k \in DOMAIN runnables :
             (~runnables[k].done /\ runnables'[k].done)
             => /\ UNCHANGED <<active, last, last_command, slot_calls, exitVars, openVars, interruptVars, commandlineVars>>
                /\ \/ events' = events
                   \/ \E stdout \in Stdouts :
                         events' = Append(events, [cmd |-> runnables[k].text,
                                                   stdout |-> stdout])]_vars

\* the main loop has opened the images of a pipe command from thumbnail
\* mode
C20_Witness ==
    /\ slot_calls # <<>>
    /\ slot_calls[Len(slot_calls)] =
           [thread |-> MainThread, cmd |-> Text_ls, stdout |-> <<"image">>]
    /\ pre = THUMBNAIL
    /\ active[IMAGE]

----------------------------------------------------------------------------
(* ShellCommandRunnable.run: exit status, logging and the pipe signal      *)

\* the error line of a failed command: the exit code and the first line of
\* stderr
x_error(returncode, stderr) ==
    [thread |-> PoolThread, level |-> "error", code |-> returncode,
     msg |-> stderr.text[1]]

\* the debug line of a successful command that is not in pipe mode
x_success ==
    [thread |-> PoolThread, level |-> "debug", msg |-> "Ran succesfully"]

\* C21: a non-zero exit logs one error with the exit code and the first
\* line of stderr and emits nothing; a zero exit outside pipe mode logs
\* success and emits nothing; the pipe signal is emitted if and only if
\* the command is in pipe mode and exits with zero.
C21_ExitStatusDecides ==
    [][\A k \in 1..MaxRunnables, returncode \in ReturnCodes,
          stdout \in RawStdouts, stderr \in Stderrs :
          RunnableRuns(k, returncode, stdout, stderr)
          => /\ returncode # 0
                    => /\ x_log' = Append(x_log, x_error(returncode, stderr))
                       /\ events' = events
             /\ (returncode = 0 /\ ~runnables[k].pipe)
                    => /\ x_log' = Append(x_log, x_success)
                       /\ events' = events
             /\ (events' # events) <=> (runnables[k].pipe /\ returncode = 0)
      ]_vars

----------------------------------------------------------------------------
(* Application.exit and the aboutToQuit handlers                           *)

\* C22: the exit of the application always completes, also when a task of
\* a thread pool never finishes: every wait for the tasks is bounded.
C22_ExitCompletes == (exit_pc # "exec") ~> (exit_pc = "exited")

\* the tasks that have been started on a thread of their pool
q_started(ts) == {k \in DOMAIN ts : ts[k].state \in {"running", "done"}}

\* C23: once the exit of the application has begun, no task is given to a
\* thread pool and no task starts to run.
C23_NoNewTaskAfterExit ==
    [][exit_pc # "exec"
       => Len(tasks') = Len(tasks) /\ q_started(tasks') \subseteq q_started(tasks)
      ]_vars

----------------------------------------------------------------------------
(* app.open                                                                *)

\* open has just been called with at least one supported image
o_images == o_paths # NotOpened /\ supported(o_paths).images # <<>>

\* open has just been called with no supported image and a directory
o_directories ==
    /\ o_paths # NotOpened
    /\ supported(o_paths).images = <<>>
    /\ supported(o_paths).directories # <<>>

\* open has just been called with neither
o_nothing ==
    /\ o_paths # NotOpened
    /\ supported(o_paths).images = <<>>
    /\ supported(o_paths).directories = <<>>

\* C24: after open(paths) image mode is the active mode if a path is a
\* supported image; otherwise library mode is if a path is a directory;
\* otherwise open fails with CommandError and leaves the active mode and
\* the last mode of every mode as they were.
C24_OpenEntersMode ==
    /\ [](o_images => current(active) = IMAGE /\ raised = "none")
    /\ [](o_directories => current(active) = LIBRARY /\ raised = "none")
    /\ [](o_nothing => raised = "CommandError")
    /\ [][o_nothing' => UNCHANGED <<active, last, interruptVars, commandlineVars>>]_vars

\* open was given a directory and then an image while thumbnail mode was
\* active
C24_Witness ==
    /\ o_paths = <<"directory", "image">>
    /\ pre = THUMBNAIL
    /\ active = [m \in Modes |-> m = IMAGE]
    /\ last[IMAGE] = THUMBNAIL

----------------------------------------------------------------------------
(* CrashHandler: interrupt signals                                         *)

----------------------------------------------------------------------------
(* Invariants of the modes, checked under SpecModes                        *)

\* C26: the last mode of every mode other than command mode is neither
\* command mode nor manipulate mode.
C26_MainModeLastFiltered ==
    \A m \in Modes \ {COMMAND} : last[m] \notin {COMMAND, MANIPULATE}

\* thumbnail mode has just been entered from command mode and keeps the
\* last mode it had
C26_Witness ==
    /\ pre = COMMAND
    /\ signals = <<<<THUMBNAIL, "entered">>>>
    /\ active[THUMBNAIL]
    /\ last[THUMBNAIL] = IMAGE

\* C27: no mode is its own last mode, so M.leave() called while M is active
\* ends with M inactive and another mode active.
C27_LastIsAnotherMode ==
    /\ [](\A m \in Modes : last[m] # m)
    /\ [][\A m \in Modes :
             (active[m] /\ LeaveCall(m))
             => ~active'[m] /\ current(active') \in Modes \ {m}]_vars

\* COMMAND.leave() has gone back to manipulate mode, from which command
\* mode had been entered
C27_Witness ==
    /\ pre = COMMAND
    /\ signals = <<<<MANIPULATE, "entered">>, <<COMMAND, "left">>>>
    /\ active[MANIPULATE]
    /\ ~active[COMMAND]

\* C28: enter() of the mode that is active already is a no-op: the active
\* flag and the last mode of every mode are unchanged and no entered signal
\* is emitted.
C28_EnterActiveIsNoOp ==
    [][\A m \in Modes :
          (current(active) = m /\ EnterCall(m))
          => /\ UNCHANGED <<active, last, commandlineVars>>
             /\ signals' = <<>>
             /\ raised' = "none"]_vars

\* THUMBNAIL.enter() has been called with thumbnail mode active
C28_Witness ==
    /\ pre = THUMBNAIL
    /\ active[THUMBNAIL]
    /\ signals = <<>>
    /\ raised = "none"

----------------------------------------------------------------------------
(* _last_command, checked under SpecRun                                    *)

\* the observed run() resolved the name of its text to a command
r_resolved ==
    /\ r_internal
    /\ r_parse.exc = "none"
    /\ registered(r_mode, r_parse.cmdname)

\* the LastCommand made of what the observed run() parsed
r_parsed_command ==
    <<LastCommand(CountStr(r_parse.count), r_parse.cmdname, r_parse.args)>>

\* the LastCommand of the active mode after a repeat-command: the stored
\* command with the count the repetition used
r_repeated_command ==
    LET stored == r_before[r_in.cur][1] IN
    <<LastCommand(IF r_supplied # CountNone THEN r_supplied ELSE stored.Count,
                  stored.Command, stored.Arguments)>>

\* C29 as claimed: running a command in mode A changes at most the
\* LastCommand of A; it is unchanged when the name does not resolve or the
\* command has store = false, and becomes (count, name, arguments) of the
\* run when the command has store = true.
C29_OnlySlotOfRunMode ==
    (r_internal /\ r_parse.exc = "none")
    => /\ \A m \in Modes \ {r_mode} : last_command[m] = r_before[m]
       /\ (r_not_found \/ (r_resolved /\ ~store(r_parse.cmdname)))
              => last_command[r_mode] = r_before[r_mode]
       /\ (r_resolved /\ store(r_parse.cmdname))
              => last_command[r_mode] = r_parsed_command

\* C29 as amended: a name that does not resolve changes no LastCommand; a
\* command with store = true changes the LastCommand of A only, to (count,
\* name, arguments) of the run; repeat-command, which has store = false,
\* changes the LastCommand of the active mode only, and when that mode has
\* one it is stored again with the count used for the repetition.
C29_SlotOfRunOrActiveMode ==
    (r_internal /\ r_parse.exc = "none")
    => /\ r_not_found => last_command = r_before
       /\ (r_resolved /\ store(r_parse.cmdname))
              => last_command = [r_before EXCEPT ![r_mode] = r_parsed_command]
       /\ (r_resolved /\ ~store(r_parse.cmdname))
              => last_command =
                     IF r_before[r_in.cur] = <<>> THEN r_before
                     ELSE [r_before EXCEPT ![r_in.cur] = r_repeated_command]

\* goto 3 has been run in thumbnail mode while image mode, which has a
\* LastCommand of its own, was active
C29_Witness ==
    /\ r_in.text = Text_goto_3
    /\ r_in.mode = THUMBNAIL
    /\ r_in.cur = IMAGE
    /\ r_before[IMAGE] # <<>>
    /\ last_command[IMAGE] = r_before[IMAGE]
    /\ last_command[THUMBNAIL] =
           <<LastCommand(CountStr(<<>>), Name_goto, <<<<"3">>>>)>>

\* the command the observed run() resolved raised ArgumentError,
\* CommandError or CommandWarning
r_invocation_failed ==
    /\ r_resolved
    /\ r_out.results # <<>>
    /\ r_out.results[1] \in {"ArgumentError", "CommandError", "CommandWarning"}

\* C30 as claimed: a command whose invocation fails with ArgumentError,
\* CommandError or CommandWarning does not replace the LastCommand of the
\* mode.
C30_FailedCommandNotStored ==
    r_invocation_failed => last_command = r_before

\* C30 as amended: a command with store = true is stored as the LastCommand
\* of the mode before it is invoked, so it replaces the LastCommand also
\* when its invocation fails; a text that does not parse or a name that
\* does not resolve replaces nothing.
C30_StoredBeforeInvocation ==
    /\ (r_invocation_failed /\ store(r_parse.cmdname))
           => last_command[r_mode] = r_parsed_command
    /\ (r_parse_failed \/ r_not_found) => last_command = r_before

\* fullscreen has failed with CommandError in image mode and has replaced
\* the LastCommand 3fullscreen
C30_Witness ==
    /\ r_in.text = Text_fullscreen
    /\ r_in.count = CountNone
    /\ r_mode = IMAGE
    /\ r_out.results = <<"CommandError">>
    /\ r_before[IMAGE] = <<LastCommand(CountStr(<<"3">>), Name_fullscreen, <<>>)>>
    /\ last_command[IMAGE] = <<LastCommand(CountStr(<<>>), Name_fullscreen, <<>>)>>

\* C31: repeat-command is never the LastCommand of a mode, so a
\* repeat-command calls, besides itself, a command other than repeat-command
\* and never recurses.
C31_RepeatNeverStored ==
    /\ \A m \in Modes :
           last_command[m] # <<>>
           => last_command[m][1].Command # Name_repeat_command
    /\ r_repeated
       => /\ \A k \in 2..Len(r_out.calls) :
                 r_out.calls[k].name # Name_repeat_command
          /\ \A k \in 1..Len(r_out.results) :
                 r_out.results[k] # "RecursionError"

\* repeat-command has been run on a LastCommand that an earlier
\* repeat-command with a count had stored again, and has called fullscreen
C31_Witness ==
    /\ r_repeated
    /\ r_in.cur = IMAGE
    /\ r_before[IMAGE] # <<>>
    /\ r_before[IMAGE][1].Count.kind = "int"
    /\ Len(r_out.calls) = 2
    /\ r_out.calls[2].name = Name_fullscreen
    /\ last_command[IMAGE] # <<>>
    /\ last_command[IMAGE][1].Command = Name_fullscreen

\* the tokens of the evaluated text that belong to a registered module
s_registered ==
    IF s_text = NotEvaluated THEN {}
    ELSE {findall(s_text, 1)[k] : k \in DOMAIN findall(s_text, 1)} \cap s_modules

\* C32: every evaluate of a text with a registered token calls the function
\* of that module again and substitutes what it returns now (no text is
\* kept from an earlier evaluate), while the body of _create_func, which
\* binds a method to its object, runs once per module, at the first call.
C32_FreshOutputCachedBinding ==
    /\ \A token \in s_registered :
           /\ \E k \in DOMAIN s_invoked : s_invoked[k].name = token
           /\ is_method(token) => contains(s_out, s_output(token))
    /\ \A k \in DOMAIN s_invoked :
           /\ s_invoked[k].out = s_output(s_invoked[k].name)
           /\ s_lazy[s_invoked[k].name].created = 1
    /\ \A name \in DOMAIN s_lazy : s_lazy[name].created <= 1

\* {a} has been evaluated after the text of the first object changed and
\* after a second object was registered: the output is the new text of the
\* first object, to which the method was bound at the first call
C32_Witness ==
    /\ s_text = Mod_a
    /\ s_modules = {Mod_a}
    /\ s_instance = "second"
    /\ s_lazy[Mod_a] = [created |-> 1, instance |-> <<"first">>]
    /\ s_world["first"] = <<"y">>
    /\ s_world["second"] = <<"x">>
    /\ s_out = <<"y">>
    /\ s_invoked = <<[name |-> Mod_a, out |-> <<"y">>]>>

----------------------------------------------------------------------------
(* Claims about the Manipulator, checked under SpecLevels and              *)
(* SpecManipulate                                                          *)

\* a step of brightness, contrast, increase, decrease or set
m_edit ==
    \/ \E name \in ManipulationNames, value \in ManipulateLevels,
          count \in LevelCounts : LevelCall(name, value, count)
    \/ \E value \in StepValues, count \in StepCounts : IncreaseCall(value, count)
    \/ \E value \in StepValues, count \in StepCounts : DecreaseCall(value, count)
    \/ \E value \in SetValues, count \in LevelCounts : SetCall(value, count)

\* C33: thread_id is monotonic: every edit (brightness, contrast, increase,
\* decrease, set) increases it by exactly one, no step decreases it, and
\* every ManipulateRunner is given the value thread_id has at its dispatch,
\* so no two runners have the same id.
C33_GenerationMonotonic ==
    /\ [][thread_id' >= thread_id]_vars
    /\ [][m_edit => /\ thread_id' = thread_id + 1
                    /\ m_dispatched' = Append(m_dispatched, thread_id')]_vars
    /\ [](\A j, k \in DOMAIN m_dispatched :
              m_dispatched[j] = m_dispatched[k] => j = k)

\* three edits, the last one of the contrast, and a reset after them
C33_Witness ==
    /\ thread_id = 3
    /\ m_dispatched = <<1, 2, 3>>
    /\ m_current = "contrast"
    /\ m_reset
    /\ manipulations = Unchanged

\* the ids of the runners that have called set_pixmap
m_applied == {pixmaps[k].id : k \in DOMAIN pixmaps}

\* C34: a ManipulateRunner whose id is no longer thread_id when its sleep
\* ends computes nothing and sets no pixmap; when every edit came while the
\* runner of the edit before was still asleep, only the runner of the last
\* edit computes and sets the pixmap.
C34_SupersededRunnerReturns ==
    /\ \A id \in RunnerIds :
           runners[id].pc = "returned"
           => /\ id \notin m_applied
              /\ runners[id].value = Unchanged
    /\ \A id \in m_burst :
           /\ runners[id].pc \in {"sleeping", "returned"}
           /\ id \notin m_applied
    /\ m_burst = 1..(thread_id - 1) => m_applied \subseteq {thread_id}

\* three edits in one burst: the runners of the first two have returned
\* and the runner of the third has set the pixmap
C34_Witness ==
    /\ thread_id = 3
    /\ m_burst = {1, 2}
    /\ runners[1].pc = "returned"
    /\ runners[2].pc = "returned"
    /\ runners[3].pc = "done"
    /\ pixmaps = <<[id |-> 3, thread_id |-> 3]>>
    /\ m_pixmap = Pixmap("first", 3, manipulations)
    /\ manipulations["brightness"] = 20

\* C35: after any sequence of brightness, contrast, increase, decrease, set
\* and reset, every value of manipulations lies in -127..127: a value
\* outside is stored as the nearest boundary.
C35_ValuesClamped ==
    \A name \in ManipulationNames :
        /\ manipulations[name] >= -127
        /\ manipulations[name] <= 127

\* the brightness was raised beyond 127 and the contrast lowered below -127
C35_Witness ==
    /\ manipulations["brightness"] = 127
    /\ manipulations["contrast"] = -127
    /\ thread_id = 3

\* C39: after Manipulator.reset() no ManipulateRunner dispatched before the
\* reset applies its result: until the next edit the current pixmap is the
\* transformed pixmap of the current image (a pixmap a runner made of that
\* image with brightness 0 and contrast 0 is taken to be the same pixmap).
C39_NoResultAfterReset ==
    m_reset => /\ m_pixmap.image = m_image
               /\ m_pixmap.value = Unchanged

----------------------------------------------------------------------------
(* vimiv/gui/commandline.py and vimiv/gui/bar.py: the command line         *)

\* number of commands submitted with return in a behaviour
MaxCommands == 2

\* CommandLine.PREFIXES
PREFIXES == {":", "/", "?"}

\* texts of the command line when return is pressed: the prefix only, a
\* command, a search
CommandLineTexts == {<<":">>, <<":">> \o Text_fullscreen, <<"/", "x">>}

\* the modes entered between two uses of the command line
CommandLineModes == {LIBRARY, MANIPULATE}

\* _split_prefix(text)
split_prefix(text) ==
    IF text[1] \notin PREFIXES
    THEN [exc |-> "UnknownPrefix", prefix |-> text[1], command |-> <<>>]
    ELSE [exc |-> "none", prefix |-> text[1], command |-> strip(Tail(text))]

\* _command_func(prefix, command, mode): the function that QTimer calls;
\* incremental is search.use_incremental(mode)
command_func(prefix, text, mode, incremental) ==
    IF prefix = ":"
    THEN [func |-> "run", command |-> text, mode |-> mode]
    ELSE IF prefix \in {"/", "?"} /\ ~incremental
    THEN [func |-> "search", command |-> text, mode |-> mode]
    ELSE [func |-> "none", command |-> text, mode |-> mode]

\* func as the return handler holds it: origin is the mode that was active
\* when command mode was entered, left whether command mode was left since
\* the handler was called
func_created(c, func) ==
    [func |-> func.func, command |-> func.command, mode |-> func.mode,
     origin |-> c.origin, left |-> FALSE]

\* the call of func: what is recorded of it, cur being the mode active at
\* the call
func_called(c, func) ==
    [c EXCEPT !.ran = Append(@, [func |-> func.func, command |-> func.command,
                                 mode |-> func.mode, origin |-> func.origin,
                                 left |-> func.left, cur |-> c.cur])]

\* command mode is left: every function not yet called is called after it
command_left(c, s) ==
    IF \E k \in DOMAIN s.signals : s.signals[k] = <<COMMAND, "left">>
    THEN [c EXCEPT !.timers = [k \in DOMAIN @ |-> [@[k] EXCEPT !.left = TRUE]]]
    ELSE c

\* _on_return_pressed calling func() itself
on_return_pressed_direct(c, text, incremental) ==
    LET p == split_prefix(text) IN
    IF p.exc # "none" \/ p.command = <<>> THEN c
    ELSE func_called(c, func_created(c,
             command_func(p.prefix, p.command, c.mode, incremental)))

\* _on_return_pressed: nothing for a prefix without command, else
\* QTimer.singleShot(0, func)
on_return_pressed(c, text, incremental) ==
    LET p == split_prefix(text) IN
    IF p.exc # "none" \/ p.command = <<>> THEN c
    ELSE [c EXCEPT !.timers = Append(@, func_created(c,
              command_func(p.prefix, p.command, c.mode, incremental)))]

\* _on_entered, connected to COMMAND.entered: self.mode = COMMAND.last
on_entered(c, s) ==
    IF \E k \in DOMAIN s.signals : s.signals[k] = <<COMMAND, "entered">>
    THEN [c EXCEPT !.mode = s.last[COMMAND]]
    ELSE c

\* the command line: CommandLine.mode, the functions given to QTimer and
\* not yet called, and what is recorded of the calls
CommandLineState ==
    [mode |-> c_mode, timers |-> c_timers, ran |-> c_ran,
     origin |-> c_origin, cur |-> current(active)]

\* the effect of one step on it, c being the state it ends in
CommandLineStep(c) ==
    /\ c_mode' = c.mode
    /\ c_timers' = c.timers
    /\ c_ran' = c.ran
    /\ c_origin' = c.origin

\* Bar._enter_command_mode: COMMAND.enter(), whose entered signal calls
\* _on_entered
EnterCommandMode ==
    /\ ~active[COMMAND]
    /\ \E s \in {enter(ModeState, COMMAND)} :
          /\ ModeCall(s)
          /\ CommandLineStep(on_entered(
                 [CommandLineState EXCEPT !.origin = current(active)], s))
    /\ UNCHANGED <<parseVars, pathVars, expandVars, runVars, aliasVars, statusVars, manipVars, externalVars, exitVars, openVars, interruptVars>>

\* another mode is entered while command mode is not active
EnterMainMode(mode) ==
    /\ ~active[COMMAND]
    /\ ModeCall(enter(ModeState, mode))
    /\ UNCHANGED <<parseVars, pathVars, expandVars, runVars, aliasVars, statusVars, manipVars, externalVars, exitVars, openVars, interruptVars, commandlineVars>>

\* return in the command line: returnPressed calls _on_return_pressed, then
\* editingFinished calls Bar._on_editing_finished, which leaves command mode
ReturnPressed(text, incremental) ==
    /\ active[COMMAND]
    /\ Len(c_timers) + Len(c_ran) < MaxCommands
    /\ \E s \in {leave(ModeState, COMMAND)} :
          /\ ModeCall(s)
          /\ CommandLineStep(command_left(
                 on_return_pressed(CommandLineState, text, incremental), s))
    /\ UNCHANGED <<parseVars, pathVars, expandVars, runVars, aliasVars, statusVars, manipVars, externalVars, exitVars, openVars, interruptVars>>

\* escape in the command line: leave_commandline emits editingFinished
EscapePressed ==
    /\ active[COMMAND]
    /\ \E s \in {leave(ModeState, COMMAND)} :
          /\ ModeCall(s)
          /\ CommandLineStep(command_left(CommandLineState, s))
    /\ UNCHANGED <<parseVars, pathVars, expandVars, runVars, aliasVars, statusVars, manipVars, externalVars, exitVars, openVars, interruptVars>>

\* the main loop calls the function of the oldest timer: runners.run(command,
\* mode=mode) for the prefix :
TimerCalls(outs) ==
    /\ c_timers # <<>>
    /\ CommandLineStep(func_called([CommandLineState EXCEPT !.timers = Tail(@)],
                                   Head(c_timers)))
    /\ IF Head(c_timers).func = "run"
       THEN \E r \in {run(RunState, Head(c_timers).command, CountNone,
                          Head(c_timers).mode, outs, marks, curpath)} :
            /\ last_command' = r.last_command
            /\ r_before' = last_command
            /\ r_in' = [text |-> Head(c_timers).command, count |-> CountNone,
                        mode |-> Head(c_timers).mode, cur |-> current(active)]
            /\ r_out' = [calls |-> r.calls, results |-> r.results,
                         log |-> r.log, updates |-> r.updates,
                         raised |-> r.exc, external |-> r.external]
       ELSE UNCHANGED runVars
    /\ UNCHANGED <<modeVars, parseVars, pathVars, expandVars, aliasVars, statusVars, manipVars, externalVars, exitVars, openVars, interruptVars>>

NextCommandLine ==
    \/ EnterCommandMode
    \/ \E mode \in CommandLineModes : EnterMainMode(mode)
    \/ \E text \in CommandLineTexts, incremental \in BOOLEAN :
          ReturnPressed(text, incremental)
    \/ EscapePressed
    \/ \E outs \in {[outer |-> "ok", inner |-> "ok"]} : TimerCalls(outs)

\* the state after api.modes._init() and CommandLine.__init__
InitSpecCommandLine ==
    /\ InitModes /\ InitParseIdle /\ InitRunPaths /\ InitRun
    /\ InitAliasIdle
    /\ InitStatusIdle
    /\ InitManipulator
    /\ InitExternal
    /\ InitExit
    /\ InitOpen
    /\ InitInterrupt
    /\ InitCommandLine

SpecCommandLine == InitSpecCommandLine /\ [][NextCommandLine]_vars

\* C36: a command submitted with return is not run inside the return
\* handler: it is run in a later step of the main loop, after command mode
\* was left, with the mode that was active when command mode was entered
\* (COMMAND.last at the entered signal), never with command mode.
C36_CommandRunsAfterLeave ==
    /\ [][c_ran' # c_ran
          => /\ c_timers # <<>>
             /\ c_timers' = Tail(c_timers)
             /\ UNCHANGED <<active, last>>]_vars
    /\ [](\A k \in DOMAIN c_ran :
              /\ c_ran[k].left
              /\ c_ran[k].mode = c_ran[k].origin
              /\ c_ran[k].mode # COMMAND)
    /\ [](r_in.text # NotRun => r_in.mode \in Modes \ {COMMAND})

\* fullscreen was submitted in a command line entered from library mode and
\* has run in library mode, with library mode active again
C36_Witness ==
    /\ c_ran = <<[func |-> "run", command |-> Text_fullscreen,
                  mode |-> LIBRARY, origin |-> LIBRARY, left |-> TRUE,
                  cur |-> LIBRARY]>>
    /\ r_in.mode = LIBRARY
    /\ last_command[LIBRARY] # <<>>
    /\ active[LIBRARY]

----------------------------------------------------------------------------
(* Claims about leaving a mode, checked under SpecModes, and about the      *)
(* substitution done by evaluate, checked under SpecStatus                  *)

\* C37: with a mode X other than command active, COMMAND.enter() directly
\* followed by COMMAND.leave() makes X active again and leaves the `last` of
\* every mode other than command as it was (COMMAND.enter() changes the
\* `last` of command only, so the values before the leave are the values
\* before the round trip).
C37_RoundTripKeepsLast ==
    [][(/\ pre # COMMAND
        /\ signals = <<<<COMMAND, "entered">>>>
        /\ LeaveCall(COMMAND))
       => (/\ active'[pre]
           /\ \A m \in Modes \ {COMMAND} : last'[m] = last[m])]_vars

\* C38: M.leave() called while M is not active does not change which mode
\* is active.
C38_LeaveInactiveKeepsActive ==
    [][\A m \in Modes :
           (~active[m] /\ LeaveCall(m))
           => current(active') = current(active)]_vars

\* C40: evaluate(text) is the one-pass substitution of the text given to it:
\* each token of the text is replaced by the output of its module (nothing
\* for an unknown token), every other character is kept, and what a module
\* returned is not substituted again.
C40_OnePassSubstitution ==
    s_text # NotEvaluated
    => /\ s_out = tokens_replaced(s_text, 1, s_modules)
       /\ (Mod_b \in s_registered => contains(s_out, Output(Mod_b, <<>>)))

====
